---- MODULE Spec2Model ----
(***************************************************************************)
(* EGA Trader (src/game.py): the economic simulation engine.               *)
(*                                                                         *)
(* Units.  The program computes with Python floats; the model computes     *)
(* with integers in fixed units:                                           *)
(*   prices, credits, profits      cents (1/100 credit)                    *)
(*   game_time, last_trade_time,                                           *)
(*   last_analysis_time            tenths of a stardate (the loop adds 0.1)*)
(*   risk_tolerance, patience      hundredths                              *)
(*   a trend                       an exact fraction <<num, den>>, den > 0 *)
(*   a station score               half cents (so that x 1.5 is exact)     *)
(* Comparisons against the program's decimal thresholds are done exactly   *)
(* by cross-multiplication.  The only rounding is in adjust_price, whose   *)
(* product is rounded to the nearest cent.                                 *)
(***************************************************************************)
EXTENDS Integers, Sequences, FiniteSets, TLC

VARIABLES
    stations,      \* Galaxy.stations: sequence of [name, station_type, position, market]
    ai_traders,    \* Galaxy.ai_traders: sequence of AITrader (each with its ship)
    player_ship,   \* Game.player_ship
    game_time,     \* Game.game_time, in tenths
    turn_count,    \* Game.turn_count
    running,       \* Game.running
    pc,            \* where the game loop is: "prompt" (input) or "ai" (update_ai_traders)
    cur,           \* index of the trader being updated in update_ai_traders
    phase          \* the statement of AITrader.update that runs next

vars == <<stations, ai_traders, player_ship, game_time, turn_count, running, pc, cur, phase>>

----------------------------------------------------------------------------
(* Bounds of the model *)

\* the game loop is followed for this many commands
MaxTurns == 54
\* the player enters state-changing commands only on the turns
\* PlayerFirstTurn .. PlayerLastTurn; on the others it enters 'status'
PlayerFirstTurn == 15
PlayerLastTurn == 18
\* the random draws of the traders (re-planning, detour) are followed in both
\* outcomes up to this turn; afterwards in the likelier one (no re-plan, no detour)
RandomLastTurn == 15

----------------------------------------------------------------------------
(* Plain helpers *)

Min2(a, b) == IF a <= b THEN a ELSE b
Max2(a, b) == IF a >= b THEN a ELSE b
Abs(a) == IF a >= 0 THEN a ELSE -a

\* Python's int(n / d) for d > 0: truncation towards zero
IntTrunc(n, d) == IF n >= 0 THEN n \div d ELSE -((-n) \div d)

RECURSIVE SumSeq(_)
SumSeq(s) == IF s = <<>> THEN 0 ELSE Head(s) + SumSeq(Tail(s))

----------------------------------------------------------------------------
(* Enumerations, in declaration order *)

CommodityType == <<"Food", "Minerals", "Technology", "Medicine", "Luxuries", "Fuel">>
Commodities == {CommodityType[k] : k \in 1..Len(CommodityType)}

StationType == {"Trading Post", "Research Station", "Mining Colony", "Manufacturing Hub"}

AIPersonality == {"Cautious", "Aggressive", "Opportunist", "Specialist"}

----------------------------------------------------------------------------
(* Position *)

Pos(qx, qy, sx, sy) ==
    [quadrant_x |-> qx, quadrant_y |-> qy, sector_x |-> sx, sector_y |-> sy]

\* distance_to variant: the coordinate differences are taken without abs()
distance_to_signed(self, other) ==
    LET q_dist == (self.quadrant_x - other.quadrant_x)
                  + (self.quadrant_y - other.quadrant_y)
    IN IF q_dist = 0
       THEN (self.sector_x - other.sector_x) + (self.sector_y - other.sector_y)
       ELSE q_dist * 8

distance_to(self, other) ==
    LET q_dist == Abs(self.quadrant_x - other.quadrant_x)
                  + Abs(self.quadrant_y - other.quadrant_y)
    IN IF q_dist = 0
       THEN Abs(self.sector_x - other.sector_x) + Abs(self.sector_y - other.sector_y)
       ELSE q_dist * 8

----------------------------------------------------------------------------
(* Market *)

\* Market._get_base_price, in cents
BasePrice(commodity) ==
    CASE commodity = "Food"       -> 100 * 100
      [] commodity = "Minerals"   -> 150 * 100
      [] commodity = "Technology" -> 500 * 100
      [] commodity = "Medicine"   -> 300 * 100
      [] commodity = "Luxuries"   -> 800 * 100
      [] commodity = "Fuel"       -> 80 * 100

\* base_price * 0.5 and base_price * 2.0
MinPrice(commodity) == BasePrice(commodity) \div 2
MaxPrice(commodity) == BasePrice(commodity) * 2

\* adjust_price variant: the price impact has the sign of the quantity change
AdjustPrice_inverted(market, commodity, quantity_change) ==
    LET current_stock == market.stock_levels[commodity]
        damp          == Max2(100, current_stock)
        current_price == market.commodities[commodity]
        new_price     == (2 * current_price * (10 * damp + quantity_change) + 10 * damp)
                         \div (20 * damp)
    IN [market EXCEPT
          !.commodities[commodity] =
              Max2(MinPrice(commodity), Min2(MaxPrice(commodity), new_price)),
          !.stock_levels[commodity] = Max2(0, current_stock + quantity_change)]

\* adjust_price variant: neither the price nor the stock is clamped
AdjustPrice_unclamped(market, commodity, quantity_change) ==
    LET current_stock == market.stock_levels[commodity]
        damp          == Max2(100, current_stock)
        current_price == market.commodities[commodity]
        new_price     == (2 * current_price * (10 * damp - quantity_change) + 10 * damp)
                         \div (20 * damp)
    IN [market EXCEPT
          !.commodities[commodity] = new_price,
          !.stock_levels[commodity] = current_stock + quantity_change]

\* adjust_price variant: the stock is written first and the price impact is
\* computed from the stock after the call
AdjustPrice_post_stock(market, commodity, quantity_change) ==
    LET new_stock     == Max2(0, market.stock_levels[commodity] + quantity_change)
        damp          == Max2(100, new_stock)
        current_price == market.commodities[commodity]
        new_price     == (2 * current_price * (10 * damp - quantity_change) + 10 * damp)
                         \div (20 * damp)
    IN [market EXCEPT
          !.commodities[commodity] =
              Max2(MinPrice(commodity), Min2(MaxPrice(commodity), new_price)),
          !.stock_levels[commodity] = new_stock]

\* adjust_price variant: min and max of the price clamp exchanged
AdjustPrice_swapped_clamp(market, commodity, quantity_change) ==
    LET current_stock == market.stock_levels[commodity]
        damp          == Max2(100, current_stock)
        current_price == market.commodities[commodity]
        new_price     == (2 * current_price * (10 * damp - quantity_change) + 10 * damp)
                         \div (20 * damp)
    IN [market EXCEPT
          !.commodities[commodity] =
              Min2(MinPrice(commodity), Max2(MaxPrice(commodity), new_price)),
          !.stock_levels[commodity] = Max2(0, current_stock + quantity_change)]

\* Market.adjust_price: price and stock are both computed from the values
\* read before either is written
AdjustPrice(market, commodity, quantity_change) ==
    LET current_stock == market.stock_levels[commodity]
        damp          == Max2(100, current_stock)
        current_price == market.commodities[commodity]
        \* current_price * (1 + (-quantity_change / damp * 0.1)), to the nearest cent
        new_price     == (2 * current_price * (10 * damp - quantity_change) + 10 * damp)
                         \div (20 * damp)
    IN [market EXCEPT
          !.commodities[commodity] =
              Max2(MinPrice(commodity), Min2(MaxPrice(commodity), new_price)),
          !.stock_levels[commodity] = Max2(0, current_stock + quantity_change)]

----------------------------------------------------------------------------
(* Ship *)

\* Optional[Position]: <<>> is None, <<p>> is the position p
None == <<>>
Some(p) == <<p>>

\* Ship.total_cargo
total_cargo(ship) ==
    SumSeq([k \in 1..Len(CommodityType) |-> ship.cargo_hold[CommodityType[k]]])

\* cargo_space_remaining variant: the cargo on board is not subtracted
cargo_space_remaining_empty_hold(ship) == ship.max_cargo

\* Ship.cargo_space_remaining
cargo_space_remaining(ship) == ship.max_cargo - total_cargo(ship)

----------------------------------------------------------------------------
(* AITrader: lookups *)

SamePosition(p, q) ==
    /\ p.quadrant_x = q.quadrant_x
    /\ p.quadrant_y = q.quadrant_y
    /\ p.sector_x = q.sector_x
    /\ p.sector_y = q.sector_y

\* AITrader._get_current_station / Game._get_current_station: the index of the
\* first station of the list at the position, 0 for None
StationAt(sts, position) ==
    LET here == {s \in 1..Len(sts) : SamePosition(sts[s].position, position)}
    IN IF here = {} THEN 0 ELSE CHOOSE s \in here : \A r \in here : s <= r

\* trade_memory is a dict in insertion order: a sequence of
\* [key |-> <<quadrant_x, quadrant_y>>, prices |-> [commodity -> price], time |-> t]
MemoryIndex(memory, key) ==
    LET at == {k \in 1..Len(memory) : memory[k].key = key}
    IN IF at = {} THEN 0 ELSE CHOOSE k \in at : TRUE

\* _update_trade_memory variant: the station of the trader's quadrant is
\* remembered, also when the trader is not at it
update_trade_memory_in_quadrant(trader, sts, now) ==
    LET near == {r \in 1..Len(sts) :
                    /\ sts[r].position.quadrant_x = trader.ship.position.quadrant_x
                    /\ sts[r].position.quadrant_y = trader.ship.position.quadrant_y}
        s    == IF near = {} THEN 0 ELSE CHOOSE r \in near : \A q \in near : r <= q
    IN IF s = 0 THEN trader
       ELSE LET pos_key == <<sts[s].position.quadrant_x, sts[s].position.quadrant_y>>
                entry   == [key |-> pos_key,
                            prices |-> sts[s].market.commodities,
                            time |-> now]
                k       == MemoryIndex(trader.trade_memory, pos_key)
            IN IF k = 0
               THEN [trader EXCEPT !.trade_memory = Append(@, entry)]
               ELSE [trader EXCEPT !.trade_memory[k] = entry]

\* _update_trade_memory variant: a quadrant already in the memory keeps its
\* first observation
update_trade_memory_keep_first(trader, sts, now) ==
    LET s == StationAt(sts, trader.ship.position)
    IN IF s = 0 THEN trader
       ELSE LET pos_key == <<sts[s].position.quadrant_x, sts[s].position.quadrant_y>>
                entry   == [key |-> pos_key,
                            prices |-> sts[s].market.commodities,
                            time |-> now]
                k       == MemoryIndex(trader.trade_memory, pos_key)
            IN IF k = 0
               THEN [trader EXCEPT !.trade_memory = Append(@, entry)]
               ELSE trader

\* _update_trade_memory variant: a re-recorded quadrant moves to the end of
\* the memory, as if its key were deleted and inserted again
update_trade_memory_move_to_end(trader, sts, now) ==
    LET s == StationAt(sts, trader.ship.position)
    IN IF s = 0 THEN trader
       ELSE LET pos_key == <<sts[s].position.quadrant_x, sts[s].position.quadrant_y>>
                entry   == [key |-> pos_key,
                            prices |-> sts[s].market.commodities,
                            time |-> now]
                others  == SelectSeq(trader.trade_memory, LAMBDA e : e.key # pos_key)
            IN [trader EXCEPT !.trade_memory = Append(others, entry)]

\* AITrader._update_trade_memory
update_trade_memory(trader, sts, now) ==
    LET s == StationAt(sts, trader.ship.position)
    IN IF s = 0 THEN trader
       ELSE LET pos_key == <<sts[s].position.quadrant_x, sts[s].position.quadrant_y>>
                entry   == [key |-> pos_key,
                            prices |-> sts[s].market.commodities,
                            time |-> now]
                k       == MemoryIndex(trader.trade_memory, pos_key)
            IN IF k = 0
               THEN [trader EXCEPT !.trade_memory = Append(@, entry)]
               ELSE [trader EXCEPT !.trade_memory[k] = entry]

\* prices[a..b] of a sequence (1-based, inclusive), empty when a > b
Slice(s, a, b) == IF a > b THEN <<>> ELSE SubSeq(s, a, b)

\* Trend variant: recent_avg is the mean of the last prices[-3:] whatever the
\* number of prices
Trend_recent_mean(prices) ==
    LET n       == Len(prices)
        recent  == Slice(prices, Max2(1, n - 2), n)
        older   == IF n > 3 THEN Slice(prices, 1, n - 3) ELSE <<prices[1]>>
        rs      == SumSeq(recent)
        os      == SumSeq(older)
    IN IF os > 0
       THEN <<rs * Len(older) - os * Len(recent), os * Len(recent)>>
       ELSE <<0, 1>>

\* the trend of one commodity from its remembered prices (at least two):
\* <<num, den>> stands for (recent_avg - older_avg) / older_avg
Trend(prices) ==
    LET n       == Len(prices)
        recent  == IF n >= 3 THEN Slice(prices, n - 2, n) ELSE <<prices[n]>>
        older   == IF n > 3 THEN Slice(prices, 1, n - 3) ELSE <<prices[1]>>
        rs      == SumSeq(recent)
        os      == SumSeq(older)
    IN IF os > 0
       THEN <<rs * Len(older) - os * Len(recent), os * Len(recent)>>
       ELSE <<0, 1>>

\* AITrader._analyze_market_trends
analyze_market_trends(trader) ==
    LET PricesOf(c) == [k \in 1..Len(trader.trade_memory) |-> trader.trade_memory[k].prices[c]]
        known == {c \in Commodities : Len(trader.trade_memory) >= 2}
    IN [trader EXCEPT !.market_analysis =
          [c \in (DOMAIN @) \cup known |->
              IF c \in known THEN Trend(PricesOf(c)) ELSE @[c]]]

\* self.market_analysis.get(commodity, 0)
TrendOf(trader, commodity) ==
    IF commodity \in DOMAIN trader.market_analysis
    THEN trader.market_analysis[commodity]
    ELSE <<0, 1>>

----------------------------------------------------------------------------
(* AITrader: the buy/sell decisions *)

\* the personality's minimum profit margin, in hundredths (lines 203-213)
MinProfitMargin(ship, commodity) ==
    IF ship.personality = "Cautious" THEN 5
    ELSE IF ship.personality = "Aggressive" THEN 15
    ELSE IF ship.personality = "Opportunist" THEN 8
    ELSE IF commodity \in ship.preferred_commodities THEN 12 ELSE 3

\* _should_sell_commodity variant: a rising trend holds the sale back whatever
\* the patience
should_sell_commodity_any_patience(trader, commodity, market) ==
    LET sell_price == market.commodities[commodity]
        base_price == BasePrice(commodity)
        trend      == TrendOf(trader, commodity)
    IN IF 10 * trend[1] > trend[2]
       THEN FALSE
       ELSE 100 * (sell_price - base_price) >= MinProfitMargin(trader.ship, commodity) * base_price

\* AITrader._should_sell_commodity
should_sell_commodity(trader, commodity, market) ==
    LET sell_price == market.commodities[commodity]
        base_price == BasePrice(commodity)
        trend      == TrendOf(trader, commodity)
    IN IF 10 * trend[1] > trend[2] /\ trader.ship.patience > 70
       THEN FALSE
       \* profit_margin >= min_profit_margin
       ELSE 100 * (sell_price - base_price) >= MinProfitMargin(trader.ship, commodity) * base_price

\* early returns variant: the thresholds refuse at equality too
BuyRefused_at_threshold(ship, commodity, buy_price) ==
    LET base_price == BasePrice(commodity)
    IN IF ship.personality = "Cautious" /\ 100 * buy_price >= 105 * base_price THEN TRUE
       ELSE IF ship.personality = "Aggressive" /\ 100 * buy_price >= 125 * base_price THEN TRUE
       ELSE IF 100 * buy_price >= 115 * base_price THEN TRUE
       ELSE ship.personality = "Specialist" /\ commodity \notin ship.preferred_commodities

\* the early returns of _should_buy_commodity (lines 230-242)
BuyRefused(ship, commodity, buy_price) ==
    LET base_price == BasePrice(commodity)
    IN IF ship.personality = "Cautious" /\ 100 * buy_price > 105 * base_price THEN TRUE
       ELSE IF ship.personality = "Aggressive" /\ 100 * buy_price > 125 * base_price THEN TRUE
       ELSE IF 100 * buy_price > 115 * base_price THEN TRUE
       ELSE ship.personality = "Specialist" /\ commodity \notin ship.preferred_commodities

\* min(a, b, c, d)
Min4(a, b, c, d) == Min2(Min2(a, b), Min2(c, d))

\* max_affordable with the whole of the credits as available funds
MaxAffordable_all_credits(ship, buy_price) == IntTrunc(ship.credits, buy_price)

\* int(available_funds / buy_price), available_funds = credits * risk_tolerance
\* (lines 244-245)
MaxAffordable(ship, buy_price) ==
    IntTrunc(ship.credits * ship.risk_tolerance, 100 * buy_price)

\* _should_buy_commodity variant: max_stock is the largest stock level of the
\* market, of any commodity
should_buy_commodity_any_stock(trader, commodity, market) ==
    LET ship            == trader.ship
        buy_price       == market.commodities[commodity]
        base_price      == BasePrice(commodity)
        afford          == MaxAffordable(ship, buy_price)
        max_space       == cargo_space_remaining(ship)
        max_stock       == CHOOSE n \in {market.stock_levels[k] : k \in Commodities} :
                              \A k \in Commodities : n >= market.stock_levels[k]
        cap             ==
            IF ship.personality = "Cautious" THEN 5
            ELSE IF ship.personality = "Aggressive" THEN 25
            ELSE IF ship.personality = "Opportunist"
            THEN IF 10 * buy_price < 9 * base_price THEN 20 ELSE 10
            ELSE IF commodity \in ship.preferred_commodities THEN 30 ELSE 0
    IN IF BuyRefused(ship, commodity, buy_price) THEN 0
       ELSE Max2(0, Min4(cap, afford, max_space, max_stock))

\* _should_buy_commodity variant: a Specialist buys a commodity outside its
\* preferred set as it buys a preferred one
should_buy_commodity_any_commodity(trader, commodity, market) ==
    LET ship            == trader.ship
        buy_price       == market.commodities[commodity]
        base_price      == BasePrice(commodity)
        afford          == MaxAffordable(ship, buy_price)
        max_space       == cargo_space_remaining(ship)
        max_stock       == market.stock_levels[commodity]
        cap             ==
            IF ship.personality = "Cautious" THEN 5
            ELSE IF ship.personality = "Aggressive" THEN 25
            ELSE IF ship.personality = "Opportunist"
            THEN IF 10 * buy_price < 9 * base_price THEN 20 ELSE 10
            ELSE 30
    IN IF ship.personality = "Cautious" /\ 100 * buy_price > 105 * base_price THEN 0
       ELSE IF ship.personality = "Aggressive" /\ 100 * buy_price > 125 * base_price THEN 0
       ELSE IF 100 * buy_price > 115 * base_price THEN 0
       ELSE Max2(0, Min4(cap, afford, max_space, max_stock))

\* AITrader._should_buy_commodity
should_buy_commodity(trader, commodity, market) ==
    LET ship            == trader.ship
        buy_price       == market.commodities[commodity]
        base_price      == BasePrice(commodity)
        afford          == MaxAffordable(ship, buy_price)
        max_space       == cargo_space_remaining(ship)
        max_stock       == market.stock_levels[commodity]
        buy_amount      ==
            IF ship.personality = "Cautious"
            THEN Min4(5, afford, max_space, max_stock)
            ELSE IF ship.personality = "Aggressive"
            THEN Min4(25, afford, max_space, max_stock)
            ELSE IF ship.personality = "Opportunist"
            THEN IF 10 * buy_price < 9 * base_price
                 THEN Min4(20, afford, max_space, max_stock)
                 ELSE Min4(10, afford, max_space, max_stock)
            ELSE IF commodity \in ship.preferred_commodities
                 THEN Min4(30, afford, max_space, max_stock)
                 ELSE 0
    IN IF BuyRefused(ship, commodity, buy_price) THEN 0 ELSE Max2(0, buy_amount)

\* a call of _should_sell_commodity(commodity, station, game_time) as a step:
\* what it returns, and self and the station after the call.  The body
\* assigns to locals only and game_time is not read.
ShouldSellCall(trader, commodity, station, now) ==
    [returned |-> should_sell_commodity(trader, commodity, station.market),
     self     |-> trader,
     station  |-> station]

\* a call of _should_buy_commodity(commodity, station, game_time) as a step
ShouldBuyCall(trader, commodity, station, now) ==
    [returned |-> should_buy_commodity(trader, commodity, station.market),
     self     |-> trader,
     station  |-> station]

----------------------------------------------------------------------------
(* AITrader._trade_at_station *)

\* sell amount variant: every personality sells at most 5 units
SellAmount_cap_five(ship, quantity) == Min2(quantity, 5)

\* the personality's sell amount (lines 282-287)
SellAmount(ship, quantity) ==
    IF ship.personality = "Cautious" THEN Min2(quantity, 5)
    ELSE IF ship.personality = "Aggressive" THEN Min2(quantity, 15)
    ELSE Min2(quantity, 10)

\* trade gate variant: the time of the last trade pass is not subtracted
TradeGate_since_start(ship, now) == 10 * now >= 200 - ship.risk_tolerance

\* the trade gate (lines 269-271): game_time - last_trade_time >= 2.0 - risk_tolerance
TradeGate(ship, now) == 10 * (now - ship.last_trade_time) >= 200 - ship.risk_tolerance

\* one iteration of the sell loop; st is [trader, market, total_profit]
SellOne(st, commodity) ==
    LET quantity == st.trader.ship.cargo_hold[commodity]
    IN IF quantity > 0 /\ should_sell_commodity(st.trader, commodity, st.market)
       THEN LET sell_price  == st.market.commodities[commodity]
                sell_amount == SellAmount(st.trader.ship, quantity)
            IN [trader |-> [st.trader EXCEPT
                               !.ship.cargo_hold[commodity] = @ - sell_amount,
                               !.ship.credits = @ + sell_amount * sell_price],
                market |-> AdjustPrice(st.market, commodity, sell_amount),
                total_profit |-> st.total_profit
                                 + sell_amount * (sell_price - BasePrice(commodity))]
       ELSE st

\* one iteration of the buy loop
BuyOne(st, commodity) ==
    LET buy_amount == should_buy_commodity(st.trader, commodity, st.market)
    IN IF buy_amount > 0
       THEN LET buy_price == st.market.commodities[commodity]
            IN [st EXCEPT
                  !.trader.ship.cargo_hold[commodity] = @ + buy_amount,
                  !.trader.ship.credits = @ - buy_amount * buy_price,
                  !.market = AdjustPrice(st.market, commodity, -buy_amount)]
       ELSE st

\* the sell loop over cargo_hold.items(), from the k-th commodity on
RECURSIVE SellLoop(_, _)
SellLoop(st, k) ==
    IF k > Len(CommodityType) THEN st ELSE SellLoop(SellOne(st, CommodityType[k]), k + 1)

\* the buy loop over CommodityType, from the k-th commodity on
RECURSIVE BuyLoop(_, _)
BuyLoop(st, k) ==
    IF k > Len(CommodityType) THEN st ELSE BuyLoop(BuyOne(st, CommodityType[k]), k + 1)

\* the sell loop after its first k iterations
RECURSIVE SellUpTo(_, _)
SellUpTo(st, k) ==
    IF k = 0 THEN st ELSE SellOne(SellUpTo(st, k - 1), CommodityType[k])

\* the buy loop after its first k iterations
RECURSIVE BuyUpTo(_, _)
BuyUpTo(st, k) ==
    IF k = 0 THEN st ELSE BuyOne(BuyUpTo(st, k - 1), CommodityType[k])

\* profit_history.append(total_profit), keeping the last 10 (lines 306-309)
TrackProfit(history, total_profit) ==
    IF total_profit = 0 THEN history
    ELSE LET h == Append(history, total_profit)
         IN IF Len(h) > 10 THEN Tail(h) ELSE h

\* _trade_at_station variant: the pass trades against a private copy of the
\* market, the station's market is left as it was
trade_at_station_private(trader, market, now) ==
    IF ~TradeGate(trader.ship, now)
    THEN [trader |-> trader, market |-> market]
    ELSE LET sold   == SellLoop([trader |-> trader, market |-> market, total_profit |-> 0], 1)
             bought == BuyLoop(sold, 1)
         IN [trader |-> [bought.trader EXCEPT
                            !.profit_history = TrackProfit(@, bought.total_profit),
                            !.ship.last_trade_time = now],
             market |-> market]

\* _trade_at_station variant: the time of the pass is recorded only when the
\* pass traded something
trade_at_station_stamp_on_trade(trader, market, now) ==
    IF ~TradeGate(trader.ship, now)
    THEN [trader |-> trader, market |-> market]
    ELSE LET sold   == SellLoop([trader |-> trader, market |-> market, total_profit |-> 0], 1)
             bought == BuyLoop(sold, 1)
         IN [trader |-> [bought.trader EXCEPT
                            !.profit_history = TrackProfit(@, bought.total_profit),
                            !.ship.last_trade_time =
                                IF bought.trader.ship.cargo_hold = trader.ship.cargo_hold
                                THEN @ ELSE now],
             market |-> bought.market]

\* _trade_at_station variant: the buy loop runs before the sell loop
trade_at_station_buy_first(trader, market, now) ==
    IF ~TradeGate(trader.ship, now)
    THEN [trader |-> trader, market |-> market]
    ELSE LET bought == BuyLoop([trader |-> trader, market |-> market, total_profit |-> 0], 1)
             sold   == SellLoop(bought, 1)
         IN [trader |-> [sold.trader EXCEPT
                            !.profit_history = TrackProfit(@, sold.total_profit),
                            !.ship.last_trade_time = now],
             market |-> sold.market]

\* _trade_at_station: the trader and the market after the call
trade_at_station(trader, market, now) ==
    IF ~TradeGate(trader.ship, now)
    THEN [trader |-> trader, market |-> market]
    ELSE LET sold   == SellLoop([trader |-> trader, market |-> market, total_profit |-> 0], 1)
             bought == BuyLoop(sold, 1)
         IN [trader |-> [bought.trader EXCEPT
                            !.profit_history = TrackProfit(@, bought.total_profit),
                            !.ship.last_trade_time = now],
             market |-> bought.market]

----------------------------------------------------------------------------
(* AITrader: choosing a destination and moving *)

\* max of other_station.market.commodities[commodity] over the stations that
\* are not equal to the candidate, starting from 0 (lines 353-357)
BestSellPrice(sts, s, commodity) ==
    LET others == {sts[o].market.commodities[commodity] :
                      o \in {o \in 1..Len(sts) : sts[o] # sts[s]}}
    IN IF others = {} THEN 0 ELSE CHOOSE p \in others : \A q \in others : p >= q

\* the score before the specialist factor, in cents (lines 336-365)
BaseScore(trader, sts, s) ==
    LET ship     == trader.ship
        market   == sts[s].market
        distance == distance_to(ship.position, sts[s].position)
        selling  == SumSeq([k \in 1..Len(CommodityType) |->
                        LET c == CommodityType[k]
                        IN IF ship.cargo_hold[c] > 0
                           THEN ship.cargo_hold[c] * (market.commodities[c] - BasePrice(c))
                           ELSE 0])
        buying   == SumSeq([k \in 1..Len(CommodityType) |->
                        LET c    == CommodityType[k]
                            best == BestSellPrice(sts, s, c)
                        IN IF 10 * best > 11 * market.commodities[c]
                           THEN (best - market.commodities[c]) * 10
                           ELSE 0])
    IN selling + buying - distance * (100 - ship.patience)

\* the specialist's station affinity (lines 368-374)
SpecialistAffinity(ship, station_type) ==
    /\ ship.personality = "Specialist"
    /\ \/ station_type = "Mining Colony" /\ "Minerals" \in ship.preferred_commodities
       \/ station_type = "Research Station" /\ "Medicine" \in ship.preferred_commodities

\* AITrader._evaluate_station_opportunity, in half cents
evaluate_station_opportunity(trader, sts, s) ==
    IF SpecialistAffinity(trader.ship, sts[s].station_type)
    THEN 3 * BaseScore(trader, sts, s)
    ELSE 2 * BaseScore(trader, sts, s)

\* _plan_movement variant: a score that equals the running best replaces it
RECURSIVE BestStation_last_best(_, _, _, _)
BestStation_last_best(trader, sts, s, best) ==
    IF s > Len(sts) THEN best
    ELSE IF sts[s].position = trader.ship.position
    THEN BestStation_last_best(trader, sts, s + 1, best)
    ELSE LET score == evaluate_station_opportunity(trader, sts, s)
         IN BestStation_last_best(trader, sts, s + 1,
                IF score >= best.score THEN [station |-> s, score |-> score] ELSE best)

\* the loop of _plan_movement from station s on; best is [station, score]
RECURSIVE BestStation(_, _, _, _)
BestStation(trader, sts, s, best) ==
    IF s > Len(sts) THEN best
    ELSE IF sts[s].position = trader.ship.position
    THEN BestStation(trader, sts, s + 1, best)
    ELSE LET score == evaluate_station_opportunity(trader, sts, s)
         IN BestStation(trader, sts, s + 1,
                IF score > best.score THEN [station |-> s, score |-> score] ELSE best)

\* AITrader._plan_movement; roll is the outcome of random.random() < change_chance
plan_movement(trader, sts, roll) ==
    IF trader.ship.destination = None \/ roll
    THEN LET best == BestStation(trader, sts, 1, [station |-> 0, score |-> 0])
         IN IF best.station # 0
            THEN [trader EXCEPT !.ship.destination = Some(sts[best.station].position)]
            ELSE trader
    ELSE trader

\* the detour scan of _move_ship (lines 390-396): the first station within
\* distance 2, not at the ship, that scores above 100 credits; 0 for none
DetourStation(trader, sts) ==
    LET current == trader.ship.position
        near == {s \in 1..Len(sts) :
                    /\ distance_to(sts[s].position, current) <= 2
                    /\ sts[s].position # current
                    /\ evaluate_station_opportunity(trader, sts, s) > 100 * 100 * 2}
    IN IF near = {} THEN 0 ELSE CHOOSE s \in near : \A r \in near : s <= r

\* step variant: the sector axes are tried in the order y, x
StepTowards_sector_y_first(ship, dest) ==
    LET current == ship.position
    IN IF current.quadrant_x # dest.quadrant_x
       THEN [ship EXCEPT !.position.quadrant_x =
                IF current.quadrant_x < dest.quadrant_x THEN @ + 1 ELSE @ - 1]
       ELSE IF current.quadrant_y # dest.quadrant_y
       THEN [ship EXCEPT !.position.quadrant_y =
                IF current.quadrant_y < dest.quadrant_y THEN @ + 1 ELSE @ - 1]
       ELSE IF current.sector_y # dest.sector_y
       THEN [ship EXCEPT !.position.sector_y =
                IF current.sector_y < dest.sector_y THEN @ + 1 ELSE @ - 1]
       ELSE IF current.sector_x # dest.sector_x
       THEN [ship EXCEPT !.position.sector_x =
                IF current.sector_x < dest.sector_x THEN @ + 1 ELSE @ - 1]
       ELSE [ship EXCEPT !.destination = None]

\* _move_ship variant: the destination is cleared by the step that brings the
\* ship onto it
StepTowards_clear_on_arrival(ship, dest) ==
    LET current == ship.position
        next == IF current.quadrant_x # dest.quadrant_x
                THEN [current EXCEPT !.quadrant_x =
                         IF current.quadrant_x < dest.quadrant_x THEN @ + 1 ELSE @ - 1]
                ELSE IF current.quadrant_y # dest.quadrant_y
                THEN [current EXCEPT !.quadrant_y =
                         IF current.quadrant_y < dest.quadrant_y THEN @ + 1 ELSE @ - 1]
                ELSE IF current.sector_x # dest.sector_x
                THEN [current EXCEPT !.sector_x =
                         IF current.sector_x < dest.sector_x THEN @ + 1 ELSE @ - 1]
                ELSE IF current.sector_y # dest.sector_y
                THEN [current EXCEPT !.sector_y =
                         IF current.sector_y < dest.sector_y THEN @ + 1 ELSE @ - 1]
                ELSE current
    IN [ship EXCEPT !.position = next,
                    !.destination = IF next = dest THEN None ELSE @]

\* _move_ship variant: one unit along every axis that differs, in one step
StepTowards_every_axis(ship, dest) ==
    LET Towards(a, b) == IF a < b THEN a + 1 ELSE IF a > b THEN a - 1 ELSE a
        current == ship.position
    IN IF current = dest
       THEN [ship EXCEPT !.destination = None]
       ELSE [ship EXCEPT !.position =
                Pos(Towards(current.quadrant_x, dest.quadrant_x),
                    Towards(current.quadrant_y, dest.quadrant_y),
                    Towards(current.sector_x, dest.sector_x),
                    Towards(current.sector_y, dest.sector_y))]

\* one step towards dest (lines 399-421)
StepTowards(ship, dest) ==
    LET current == ship.position
    IN IF current.quadrant_x # dest.quadrant_x
       THEN [ship EXCEPT !.position.quadrant_x =
                IF current.quadrant_x < dest.quadrant_x THEN @ + 1 ELSE @ - 1]
       ELSE IF current.quadrant_y # dest.quadrant_y
       THEN [ship EXCEPT !.position.quadrant_y =
                IF current.quadrant_y < dest.quadrant_y THEN @ + 1 ELSE @ - 1]
       ELSE IF current.sector_x # dest.sector_x
       THEN [ship EXCEPT !.position.sector_x =
                IF current.sector_x < dest.sector_x THEN @ + 1 ELSE @ - 1]
       ELSE IF current.sector_y # dest.sector_y
       THEN [ship EXCEPT !.position.sector_y =
                IF current.sector_y < dest.sector_y THEN @ + 1 ELSE @ - 1]
       ELSE [ship EXCEPT !.destination = None]

\* the destination _move_ship steps towards; roll is the outcome of
\* random.random() < 0.1, drawn for an Opportunist only
MoveTarget(trader, sts, roll) ==
    LET detour == IF trader.ship.personality = "Opportunist" /\ roll
                  THEN DetourStation(trader, sts) ELSE 0
    IN IF detour # 0 THEN sts[detour].position ELSE trader.ship.destination[1]

\* _move_ship variant: the detour station becomes the stored destination
move_ship_detour_stored(trader, sts, roll) ==
    IF trader.ship.destination = None
    THEN trader
    ELSE LET target == MoveTarget(trader, sts, roll)
         IN [trader EXCEPT !.ship = StepTowards([@ EXCEPT !.destination = Some(target)], target)]

\* AITrader._move_ship
move_ship(trader, sts, roll) ==
    IF trader.ship.destination = None
    THEN trader
    ELSE [trader EXCEPT !.ship = StepTowards(@, MoveTarget(trader, sts, roll))]

----------------------------------------------------------------------------
(* Game: the player's commands.  A command is the typed line after          *)
(* strip().lower(), as a sequence of one-character strings.                 *)

Cmd_move   == <<"m", "o", "v", "e">>
Cmd_help   == <<"h", "e", "l", "p">>
Cmd_h      == <<"h">>
Cmd_scan   == <<"s", "c", "a", "n">>
Cmd_s      == <<"s">>
Cmd_market == <<"m", "a", "r", "k", "e", "t">>
Cmd_mk     == <<"m", "k">>
Cmd_trade  == <<"t", "r", "a", "d", "e">>
Cmd_t      == <<"t">>
Cmd_dock   == <<"d", "o", "c", "k">>
Cmd_d      == <<"d">>
Cmd_quit   == <<"q", "u", "i", "t">>
Cmd_q      == <<"q">>
Cmd_save   == <<"s", "a", "v", "e">>
Cmd_status == <<"s", "t", "a", "t", "u", "s">>

\* process_command variant: a command no branch recognises stops the loop
Handler_unknown_quits(command) ==
    IF (Len(command) > 0 /\ command[1] = "m") \/ command = Cmd_move
    THEN "handle_move_command"
    ELSE IF command = Cmd_help \/ command = Cmd_h THEN "show_help"
    ELSE IF command = Cmd_scan \/ command = Cmd_s THEN "scan_area"
    ELSE IF command = Cmd_market \/ command = Cmd_mk THEN "show_market"
    ELSE IF command = Cmd_trade \/ command = Cmd_t THEN "trade_menu"
    ELSE IF command = Cmd_dock \/ command = Cmd_d THEN "dock_at_station"
    ELSE IF command = Cmd_save THEN "save_game"
    ELSE IF command = Cmd_status THEN "status"
    ELSE "quit"

\* Game.process_command: the branch of the if/elif chain a command takes
Handler(command) ==
    IF (Len(command) > 0 /\ command[1] = "m") \/ command = Cmd_move
    THEN "handle_move_command"
    ELSE IF command = Cmd_help \/ command = Cmd_h THEN "show_help"
    ELSE IF command = Cmd_scan \/ command = Cmd_s THEN "scan_area"
    ELSE IF command = Cmd_market \/ command = Cmd_mk THEN "show_market"
    ELSE IF command = Cmd_trade \/ command = Cmd_t THEN "trade_menu"
    ELSE IF command = Cmd_dock \/ command = Cmd_d THEN "dock_at_station"
    ELSE IF command = Cmd_quit \/ command = Cmd_q THEN "quit"
    ELSE IF command = Cmd_save THEN "save_game"
    ELSE IF command = Cmd_status THEN "status"
    ELSE "unknown"

\* int(d) of one character: its value, or -1 when int() raises ValueError
DigitValue(d) ==
    CASE d = "0" -> 0 [] d = "1" -> 1 [] d = "2" -> 2 [] d = "3" -> 3 [] d = "4" -> 4
      [] d = "5" -> 5 [] d = "6" -> 6 [] d = "7" -> 7 [] d = "8" -> 8 [] d = "9" -> 9
      [] OTHER -> -1

\* Game.move_to_position
move_to_position(ship, qx, qy, sx, sy) ==
    LET old_pos == ship.position
        energy_cost == (Abs(qx - old_pos.quadrant_x) + Abs(qy - old_pos.quadrant_y)) * 100
                       + Abs(sx - old_pos.sector_x) + Abs(sy - old_pos.sector_y)
    IN IF ship.energy >= energy_cost
       THEN [ship EXCEPT !.position = Pos(qx, qy, sx, sy), !.energy = @ - energy_cost]
       ELSE ship

\* Game.move_to_sector
move_to_sector(ship, sx, sy) ==
    LET old_pos == ship.position
        energy_cost == Abs(sx - old_pos.sector_x) + Abs(sy - old_pos.sector_y)
    IN IF ship.energy >= energy_cost
       THEN [ship EXCEPT !.position.sector_x = sx, !.position.sector_y = sy,
                         !.energy = @ - energy_cost]
       ELSE ship

\* handle_move_command variant: the digits are not checked against 0..7
handle_move_command_unchecked(ship, command) ==
    IF Len(command) > 1 /\ command[1] = "m"
    THEN LET coords == Tail(command)
             v(k)   == DigitValue(coords[k])
         IN IF Len(coords) = 4
            THEN IF \E k \in 1..4 : v(k) < 0 THEN ship
                 ELSE move_to_position(ship, v(1), v(2), v(3), v(4))
            ELSE IF Len(coords) = 2
            THEN IF \E k \in 1..2 : v(k) < 0 THEN ship
                 ELSE move_to_sector(ship, v(1), v(2))
            ELSE ship
    ELSE ship

\* Game.handle_move_command
handle_move_command(ship, command) ==
    IF Len(command) > 1 /\ command[1] = "m"
    THEN LET coords == Tail(command)
             v(k)   == DigitValue(coords[k])
         IN IF Len(coords) = 4
            THEN IF \E k \in 1..4 : v(k) < 0 THEN ship            \* ValueError
                 ELSE IF \A k \in 1..4 : 0 <= v(k) /\ v(k) <= 7
                 THEN move_to_position(ship, v(1), v(2), v(3), v(4))
                 ELSE ship
            ELSE IF Len(coords) = 2
            THEN IF \E k \in 1..2 : v(k) < 0 THEN ship            \* ValueError
                 ELSE IF \A k \in 1..2 : 0 <= v(k) /\ v(k) <= 7
                 THEN move_to_sector(ship, v(1), v(2))
                 ELSE ship
            ELSE ship
    ELSE ship

\* Game.dock_at_station
dock_at_station(ship, sts) ==
    IF StationAt(sts, ship.position) # 0 THEN ship
    ELSE LET Dist(s) == Abs(sts[s].position.sector_x - ship.position.sector_x)
                        + Abs(sts[s].position.sector_y - ship.position.sector_y)
             nearby == {s \in 1..Len(sts) :
                           /\ sts[s].position.quadrant_x = ship.position.quadrant_x
                           /\ sts[s].position.quadrant_y = ship.position.quadrant_y
                           /\ Dist(s) <= 1}
         IN IF nearby = {} THEN ship
            ELSE LET s == CHOOSE s \in nearby :
                              \A r \in nearby : Dist(s) < Dist(r) \/ (Dist(s) = Dist(r) /\ s <= r)
                 IN [ship EXCEPT !.position.sector_x = sts[s].position.sector_x,
                                 !.position.sector_y = sts[s].position.sector_y]

\* buy_goods variant: the quantity is checked to be positive only
buy_goods_unbounded(st, selection, quantity) ==
    LET choice == selection.val - 1
    IN IF ~selection.ok THEN st
       ELSE IF ~(0 <= choice /\ choice < Len(CommodityType)) THEN st
       ELSE LET commodity == CommodityType[choice + 1]
                price     == st.market.commodities[commodity]
            IN IF ~quantity.ok THEN st
               ELSE IF 0 < quantity.val
               THEN [ship |-> [st.ship EXCEPT
                                  !.cargo_hold[commodity] = @ + quantity.val,
                                  !.credits = @ - quantity.val * price],
                     market |-> AdjustPrice(st.market, commodity, -quantity.val)]
               ELSE st

\* A typed number is [ok |-> whether int() accepts it, val |-> its value].
\* Game.buy_goods with the typed selection and quantity; st is [ship, market]
buy_goods(st, selection, quantity) ==
    LET choice == selection.val - 1
    IN IF ~selection.ok THEN st                                   \* ValueError
       ELSE IF ~(0 <= choice /\ choice < Len(CommodityType)) THEN st
       ELSE LET commodity      == CommodityType[choice + 1]
                price          == st.market.commodities[commodity]
                max_affordable == IntTrunc(st.ship.credits, price)
                max_space      == cargo_space_remaining(st.ship)
                max_stock      == st.market.stock_levels[commodity]
                max_buy        == Min2(max_affordable, Min2(max_space, max_stock))
            IN IF max_buy <= 0 THEN st
               ELSE IF ~quantity.ok THEN st                       \* ValueError
               ELSE IF 0 < quantity.val /\ quantity.val <= max_buy
               THEN [ship |-> [st.ship EXCEPT
                                  !.cargo_hold[commodity] = @ + quantity.val,
                                  !.credits = @ - quantity.val * price],
                     market |-> AdjustPrice(st.market, commodity, -quantity.val)]
               ELSE st

\* the commodities of cargo_hold with quantity > 0, in dict order
Available(ship) ==
    SelectSeq(CommodityType, LAMBDA c : ship.cargo_hold[c] > 0)

\* Game.sell_goods with the typed selection and quantity
sell_goods(st, selection, quantity) ==
    LET available == Available(st.ship)
        choice    == selection.val - 1
    IN IF available = <<>> THEN st
       ELSE IF ~selection.ok THEN st                              \* ValueError
       ELSE IF ~(0 <= choice /\ choice < Len(available)) THEN st
       ELSE LET commodity    == available[choice + 1]
                max_quantity == st.ship.cargo_hold[commodity]
            IN IF ~quantity.ok THEN st                            \* ValueError
               ELSE IF 0 < quantity.val /\ quantity.val <= max_quantity
               THEN [ship |-> [st.ship EXCEPT
                                  !.cargo_hold[commodity] = @ - quantity.val,
                                  !.credits = @ + quantity.val * st.market.commodities[commodity]],
                     market |-> AdjustPrice(st.market, commodity, quantity.val)]
               ELSE st

\* Game.trade_menu on a docked ship: the typed lines are a script, a sequence of
\* [choice |-> "1" (buy) or "2" (sell), selection, quantity]; other choices
\* ("3", "4", anything else) change nothing
RECURSIVE trade_menu(_, _)
trade_menu(st, script) ==
    IF script = <<>> THEN st
    ELSE LET line == Head(script)
             next == IF line.choice = "1" THEN buy_goods(st, line.selection, line.quantity)
                     ELSE IF line.choice = "2" THEN sell_goods(st, line.selection, line.quantity)
                     ELSE st
         IN trade_menu(next, Tail(script))

----------------------------------------------------------------------------
(* World generation: the state after Game.__init__ *)

\* supply_demand of _generate_market, in hundredths; a trading post draws its
\* multipliers from [0.9, 1.1]
SupplyDemand(station_type) ==
    CASE station_type = "Mining Colony" ->
            [Food |-> 150, Minerals |-> 70, Technology |-> 130,
             Medicine |-> 120, Luxuries |-> 110, Fuel |-> 90]
      [] station_type = "Manufacturing Hub" ->
            [Food |-> 110, Minerals |-> 140, Technology |-> 80,
             Medicine |-> 100, Luxuries |-> 90, Fuel |-> 110]
      [] station_type = "Research Station" ->
            [Food |-> 130, Minerals |-> 120, Technology |-> 90,
             Medicine |-> 80, Luxuries |-> 140, Fuel |-> 120]
      [] station_type = "Trading Post" ->
            [Food |-> 100, Minerals |-> 105, Technology |-> 100,
             Medicine |-> 100, Luxuries |-> 100, Fuel |-> 110]

\* Galaxy._generate_market: base * multiplier * variance; the variance, drawn
\* from [0.9, 1.1], is given as a fraction <<num, den>> and the stock is drawn
\* from the ranges of the station type
generate_market(station_type, variance, stock) ==
    [commodities   |-> [c \in Commodities |->
                           (BasePrice(c) * SupplyDemand(station_type)[c] * variance[c][1])
                           \div (100 * variance[c][2])],
     supply_demand |-> SupplyDemand(station_type),
     stock_levels  |-> stock]

\* Galaxy._generate_station
generate_station(name, station_type, position, variance, stock) ==
    [name |-> name, station_type |-> station_type, position |-> position,
     market |-> generate_market(station_type, variance, stock)]

\* the stations of the generated galaxy, in generation order (by quadrant)
GeneratedStations ==
    << generate_station("Zeta Mining 1", "Mining Colony", Pos(0, 0, 2, 2),
          [Food |-> <<1, 1>>, Minerals |-> <<9, 10>>, Technology |-> <<1, 1>>,
           Medicine |-> <<1, 1>>, Luxuries |-> <<1, 1>>, Fuel |-> <<1, 1>>],
          [Food |-> 10, Minerals |-> 100, Technology |-> 20,
           Medicine |-> 15, Luxuries |-> 10, Fuel |-> 50]),
       generate_station("Gamma Trading Post 2", "Trading Post", Pos(0, 1, 2, 3),
          [Food |-> <<105, 100>>, Minerals |-> <<1, 1>>, Technology |-> <<1, 1>>,
           Medicine |-> <<1, 1>>, Luxuries |-> <<1, 1>>, Fuel |-> <<11, 10>>],
          [Food |-> 40, Minerals |-> 40, Technology |-> 40,
           Medicine |-> 40, Luxuries |-> 40, Fuel |-> 40]),
       generate_station("Epsilon Research 3", "Research Station", Pos(1, 0, 3, 2),
          [Food |-> <<25, 26>>, Minerals |-> <<23, 24>>, Technology |-> <<1, 1>>,
           Medicine |-> <<1, 1>>, Luxuries |-> <<1, 1>>, Fuel |-> <<1, 1>>],
          [Food |-> 20, Minerals |-> 10, Technology |-> 40,
           Medicine |-> 60, Luxuries |-> 10, Fuel |-> 30]),
       generate_station("Eta Manufacturing 4", "Manufacturing Hub", Pos(1, 1, 3, 3),
          [Food |-> <<9, 10>>, Minerals |-> <<1, 1>>, Technology |-> <<1, 1>>,
           Medicine |-> <<1, 1>>, Luxuries |-> <<1, 1>>, Fuel |-> <<95, 100>>],
          [Food |-> 60, Minerals |-> 20, Technology |-> 80,
           Medicine |-> 30, Luxuries |-> 50, Fuel |-> 50]) >>

\* AITrader.__init__ around a ship of spawn_ai_traders
NewTrader(personality, position, risk_tolerance, patience, credits, max_cargo, cargo_hold, preferred_commodities) ==
    [ship |-> [position |-> position,
               destination |-> None,
               cargo_hold |-> cargo_hold,
               max_cargo |-> max_cargo,
               credits |-> credits,
               last_trade_time |-> 0,
               personality |-> personality,
               preferred_commodities |-> preferred_commodities,
               risk_tolerance |-> risk_tolerance,
               patience |-> patience],
     trade_memory |-> <<>>,
     market_analysis |-> <<>>,
     profit_history |-> <<>>,
     last_analysis_time |-> 0]

\* the ships spawn_ai_traders can give the first trader.  The risk tolerances
\* of the ships are such that 2.0 - risk_tolerance is not a whole number of
\* tenths met by the difference of two update times: there the program's
\* comparison is decided by the rounding of its float sum of 0.1s.
FirstTraders ==
    { NewTrader("Aggressive", Pos(0, 0, 2, 5), 75, 20, 2000 * 100, 100,
          [Food |-> 1, Minerals |-> 2, Technology |-> 0,
           Medicine |-> 3, Luxuries |-> 0, Fuel |-> 1], {}),
      NewTrader("Opportunist", Pos(0, 0, 2, 4), 65, 40, 3000 * 100, 80,
          [Food |-> 0, Minerals |-> 1, Technology |-> 2,
           Medicine |-> 0, Luxuries |-> 1, Fuel |-> 3], {}) }

\* the ships spawn_ai_traders can give the second trader
SecondTraders ==
    { NewTrader("Cautious", Pos(0, 0, 2, 5), 30, 80, 4000 * 100, 70,
          [Food |-> 2, Minerals |-> 3, Technology |-> 1,
           Medicine |-> 0, Luxuries |-> 1, Fuel |-> 2], {}),
      NewTrader("Specialist", Pos(0, 0, 2, 5), 55, 75, 5000 * 100, 50,
          [Food |-> 3, Minerals |-> 3, Technology |-> 3,
           Medicine |-> 3, Luxuries |-> 3, Fuel |-> 3], {"Minerals", "Fuel"}) }

\* Game._create_player_ship: in the quadrant of a station, at any sector
create_player_ship(position) ==
    [position |-> position,
     energy |-> 1000,
     cargo_hold |-> [c \in Commodities |-> 0],
     max_cargo |-> 100,
     credits |-> 5000 * 100]

PlayerStarts == {Pos(1, 1, 3, 4)}

Init ==
    /\ stations = GeneratedStations
    /\ \E t1 \in FirstTraders, t2 \in SecondTraders : ai_traders = <<t1, t2>>
    /\ \E p \in PlayerStarts : player_ship = create_player_ship(p)
    /\ game_time = 0
    /\ turn_count = 0
    /\ running = TRUE
    /\ pc = "prompt"
    /\ cur = 0
    /\ phase = "idle"

----------------------------------------------------------------------------
(* Game.game_loop *)

\* what the player types at the prompt
CommandInputs ==
    { Cmd_status, Cmd_help, Cmd_h, Cmd_scan, Cmd_s, Cmd_market, Cmd_mk, Cmd_save,
      <<"x">>, <<>>, Cmd_dock, Cmd_d, Cmd_trade, Cmd_t, Cmd_quit, Cmd_q, Cmd_move,
      <<"m", "3", "3">>, <<"m", "0", "1", "2", "3">>,
      <<"m", "8", "3">>, <<"m", "x", "3">>, <<"m", "0", "1", "2", "9">>, <<"m", "7">> }

\* what the player types as a number
Typed(n) == [ok |-> TRUE, val |-> n]
NotANumber == [ok |-> FALSE, val |-> 0]

\* what the player types in the trading menu before leaving it with "4"
MenuScripts ==
    { <<>>,
      << [choice |-> "1", selection |-> Typed(1), quantity |-> Typed(50)] >>,
      << [choice |-> "2", selection |-> Typed(1), quantity |-> Typed(20)] >>,
      << [choice |-> "1", selection |-> NotANumber, quantity |-> Typed(1)] >>,
      << [choice |-> "1", selection |-> Typed(7), quantity |-> Typed(1)] >>,
      << [choice |-> "1", selection |-> Typed(1), quantity |-> NotANumber] >>,
      << [choice |-> "1", selection |-> Typed(1), quantity |-> Typed(0)] >>,
      << [choice |-> "1", selection |-> Typed(2), quantity |-> Typed(1000)] >>,
      << [choice |-> "2", selection |-> Typed(0), quantity |-> Typed(1)] >>,
      << [choice |-> "2", selection |-> Typed(1), quantity |-> Typed(-3)] >>,
      << [choice |-> "2", selection |-> Typed(1), quantity |-> Typed(1000)] >>,
      << [choice |-> "3", selection |-> Typed(1), quantity |-> Typed(1)] >> }

\* the commands the player may type on this turn
CommandsNow ==
    IF PlayerFirstTurn <= turn_count /\ turn_count <= PlayerLastTurn
    THEN CommandInputs
    ELSE {Cmd_status}

\* the rest of a loop iteration after process_command (lines 712-718)
EndTurn ==
    /\ game_time' = game_time + 1
    /\ turn_count' = turn_count + 1
    /\ IF (turn_count + 1) % 3 = 0 /\ Len(ai_traders) > 0
       THEN pc' = "ai" /\ cur' = 1 /\ phase' = "memory"
       ELSE pc' = "prompt" /\ cur' = 0 /\ phase' = "idle"

AtPrompt == pc = "prompt" /\ running /\ turn_count < MaxTurns

\* help, scan, market, save, status and unknown commands: output only
NoEffectCommand ==
    /\ AtPrompt
    /\ \E command \in CommandsNow :
          Handler(command) \in {"show_help", "scan_area", "show_market",
                                "save_game", "status", "unknown"}
    /\ UNCHANGED <<stations, ai_traders, player_ship, running>>
    /\ EndTurn

MoveCommand ==
    /\ AtPrompt
    /\ \E command \in CommandsNow :
          /\ Handler(command) = "handle_move_command"
          /\ player_ship' = handle_move_command(player_ship, command)
    /\ UNCHANGED <<stations, ai_traders, running>>
    /\ EndTurn

DockCommand ==
    /\ AtPrompt
    /\ \E command \in CommandsNow : Handler(command) = "dock_at_station"
    /\ player_ship' = dock_at_station(player_ship, stations)
    /\ UNCHANGED <<stations, ai_traders, running>>
    /\ EndTurn

TradeCommand ==
    /\ AtPrompt
    /\ \E command \in CommandsNow : Handler(command) = "trade_menu"
    /\ LET s == StationAt(stations, player_ship.position)
       IN IF s = 0
          THEN UNCHANGED <<stations, player_ship>>
          ELSE \E script \in MenuScripts :
                  LET done == trade_menu([ship |-> player_ship, market |-> stations[s].market],
                                         script)
                  IN /\ player_ship' = done.ship
                     /\ stations' = [stations EXCEPT ![s].market = done.market]
    /\ UNCHANGED <<ai_traders, running>>
    /\ EndTurn

QuitCommand ==
    /\ AtPrompt
    /\ \E command \in CommandsNow : Handler(command) = "quit"
    /\ running' = FALSE
    /\ UNCHANGED <<stations, ai_traders, player_ship>>
    /\ EndTurn

----------------------------------------------------------------------------
(* Galaxy.update_ai_traders: AITrader.update of each trader in list order,  *)
(* one statement of update per step                                         *)

Updating(p) == pc = "ai" /\ phase = p

\* the outcomes of a comparison random.random() < chance followed on this turn
RollOutcomes == IF turn_count <= RandomLastTurn THEN BOOLEAN ELSE {FALSE}

UpdateTradeMemory ==
    /\ Updating("memory")
    /\ ai_traders' = [ai_traders EXCEPT ![cur] = update_trade_memory(@, stations, game_time)]
    /\ phase' = "analyze"
    /\ UNCHANGED <<stations, player_ship, game_time, turn_count, running, pc, cur>>

\* update variant: the trends are refreshed on every update
AnalyzeMarketTrends_every_update ==
    /\ Updating("analyze")
    /\ ai_traders' = [ai_traders EXCEPT ![cur] =
          [analyze_market_trends(@) EXCEPT !.last_analysis_time = game_time]]
    /\ phase' = "trade"
    /\ UNCHANGED <<stations, player_ship, game_time, turn_count, running, pc, cur>>

AnalyzeMarketTrends ==
    /\ Updating("analyze")
    /\ ai_traders' = [ai_traders EXCEPT ![cur] =
          IF game_time - @.last_analysis_time > 50
          THEN [analyze_market_trends(@) EXCEPT !.last_analysis_time = game_time]
          ELSE @]
    /\ phase' = "trade"
    /\ UNCHANGED <<stations, player_ship, game_time, turn_count, running, pc, cur>>

TradeAtStation ==
    /\ Updating("trade")
    /\ LET s == StationAt(stations, ai_traders[cur].ship.position)
       IN IF s = 0
          THEN UNCHANGED <<stations, ai_traders>>
          ELSE LET done == trade_at_station(ai_traders[cur], stations[s].market, game_time)
               IN /\ ai_traders' = [ai_traders EXCEPT ![cur] = done.trader]
                  /\ stations' = [stations EXCEPT ![s].market = done.market]
    /\ phase' = "plan"
    /\ UNCHANGED <<player_ship, game_time, turn_count, running, pc, cur>>

PlanMovement ==
    /\ Updating("plan")
    /\ \E roll \in (IF ai_traders[cur].ship.destination = None THEN {FALSE} ELSE RollOutcomes) :
          ai_traders' = [ai_traders EXCEPT ![cur] = plan_movement(@, stations, roll)]
    /\ phase' = "move"
    /\ UNCHANGED <<stations, player_ship, game_time, turn_count, running, pc, cur>>

MoveShip ==
    /\ Updating("move")
    /\ \E roll \in (IF ai_traders[cur].ship.personality = "Opportunist"
                       /\ ai_traders[cur].ship.destination # None
                    THEN RollOutcomes ELSE {FALSE}) :
          ai_traders' = [ai_traders EXCEPT ![cur] = move_ship(@, stations, roll)]
    /\ IF cur < Len(ai_traders)
       THEN cur' = cur + 1 /\ phase' = "memory" /\ pc' = pc
       ELSE cur' = 0 /\ phase' = "idle" /\ pc' = "prompt"
    /\ UNCHANGED <<stations, player_ship, game_time, turn_count, running>>

Next ==
    \/ NoEffectCommand
    \/ MoveCommand
    \/ DockCommand
    \/ TradeCommand
    \/ QuitCommand
    \/ UpdateTradeMemory
    \/ AnalyzeMarketTrends
    \/ TradeAtStation
    \/ PlanMovement
    \/ MoveShip

Spec == Init /\ [][Next]_vars

----------------------------------------------------------------------------
(* Properties of the markets and of the cargo holds *)

\* the quantity changes a further adjust_price call is tried with
QuantityProbes == {-500, -50, 50, 500}

\* every price within [0.5 x base, 2.0 x base], every stock level >= 0
MarketInRange(market) ==
    \A c \in Commodities :
        /\ 2 * market.commodities[c] >= BasePrice(c)
        /\ market.commodities[c] <= 2 * BasePrice(c)
        /\ market.stock_levels[c] >= 0

\* C1: in every state reached from world generation by AI trades and player
\* buy/sell operations, every station's price of every commodity lies in
\* [0.5 x base, 2.0 x base] and every stock level is >= 0; and every call of
\* adjust_price on such a market results in a market of that kind again
C1_PricesAndStocksInRange ==
    \A s \in 1..Len(stations) :
        /\ MarketInRange(stations[s].market)
        /\ \A c \in Commodities, q \in QuantityProbes :
              LET after == AdjustPrice(stations[s].market, c, q)
              IN /\ 2 * after.commodities[c] >= BasePrice(c)
                 /\ after.commodities[c] <= 2 * BasePrice(c)
                 /\ after.stock_levels[c] >= 0

\* C1 is exercised: an AI trader and the player have both traded at a station,
\* whose prices and stocks have moved from the generated ones
C1_Witness ==
    \E s \in 1..Len(stations) :
        /\ stations[s].market.commodities # GeneratedStations[s].market.commodities
        /\ stations[s].market.stock_levels # GeneratedStations[s].market.stock_levels
        /\ \E i \in 1..Len(ai_traders) :
              /\ ai_traders[i].ship.last_trade_time > 0
              /\ SamePosition(ai_traders[i].ship.position, stations[s].position)
        /\ SamePosition(player_ship.position, stations[s].position)
        /\ total_cargo(player_ship) > 0

\* each quantity >= 0 and the sum within the capacity
CargoWithinCapacity(ship) ==
    /\ \A c \in Commodities : ship.cargo_hold[c] >= 0
    /\ SumSeq([k \in 1..Len(CommodityType) |-> ship.cargo_hold[CommodityType[k]]])
           <= ship.max_cargo

\* C2: for every AI trader's ship and for the player's ship, in every
\* reachable state, each cargo quantity is >= 0 and the sum of the cargo
\* quantities is <= the ship's max cargo capacity
C2_CargoWithinCapacity ==
    /\ \A i \in 1..Len(ai_traders) : CargoWithinCapacity(ai_traders[i].ship)
    /\ CargoWithinCapacity(player_ship)

\* C2 is exercised: after a pass with sales and purchases an AI trader's hold
\* is filled to its capacity, and the player holds cargo
C2_Witness ==
    /\ \E i \in 1..Len(ai_traders) :
          /\ ai_traders[i].ship.last_trade_time > 0
          /\ SumSeq([k \in 1..Len(CommodityType) |->
                 ai_traders[i].ship.cargo_hold[CommodityType[k]]]) = ai_traders[i].ship.max_cargo
    /\ \E c \in Commodities : player_ship.cargo_hold[c] > 0

----------------------------------------------------------------------------
(* Properties of _move_ship *)

Axes == <<"quadrant_x", "quadrant_y", "sector_x", "sector_y">>

\* the index in Axes of the first axis on which p differs from t, 0 if none
FirstDifferingAxis(p, t) ==
    LET differing == {a \in 1..Len(Axes) : p[Axes[a]] # t[Axes[a]]}
    IN IF differing = {} THEN 0 ELSE CHOOSE a \in differing : \A b \in differing : a <= b

\* after is before moved by one along the first axis on which its position
\* differs from the target, or with the destination cleared when none differs
MovedOneStep(before, after, target) ==
    LET a == FirstDifferingAxis(before.position, target)
    IN IF a = 0
       THEN after = [before EXCEPT !.destination = None]
       ELSE /\ after.destination = before.destination
            /\ \A b \in (1..Len(Axes)) \ {a} :
                  after.position[Axes[b]] = before.position[Axes[b]]
            /\ after.position[Axes[a]] - before.position[Axes[a]]
                  = (IF before.position[Axes[a]] < target[Axes[a]] THEN 1 ELSE -1)
            /\ after = [before EXCEPT !.position = after.position]

\* the targets a call of _move_ship can step towards: the destination, and for
\* an Opportunist a station within distance 2 that the ship is not at
MoveTargets(ship, sts) ==
    {ship.destination[1]}
    \cup (IF ship.personality = "Opportunist"
          THEN {sts[s].position : s \in {s \in 1..Len(sts) :
                    /\ distance_to(sts[s].position, ship.position) <= 2
                    /\ sts[s].position # ship.position}}
          ELSE {})

\* C3: one call of _move_ship with a destination set changes exactly one
\* coordinate by exactly +1 or -1, the first of quadrant x, quadrant y,
\* sector x, sector y on which the position differs from the target, and
\* leaves the other three untouched; when all four match it changes no
\* coordinate and clears the destination; with no destination it changes
\* nothing.  The same holds of one step towards any station of the galaxy.
C3_MoveShipOneStep ==
    [][Updating("move") =>
          LET before == ai_traders[cur].ship
              after  == ai_traders'[cur].ship
          IN /\ IF before.destination = None
                THEN after = before
                ELSE \E target \in MoveTargets(before, stations) :
                        MovedOneStep(before, after, target)
             /\ ai_traders' = [ai_traders EXCEPT ![cur].ship = after]
             /\ \A s \in 1..Len(stations) :
                   MovedOneStep(before, StepTowards(before, stations[s].position),
                                stations[s].position)]_vars

\* C3 is exercised: a trader has left its spawn position and is on its way,
\* the quadrant and sector x of its destination reached, sector y not yet
C3_Witness ==
    \E i \in 1..Len(ai_traders) :
        /\ ai_traders[i].ship.destination # None
        /\ ai_traders[i].ship.position
              \notin {t.ship.position : t \in FirstTraders \cup SecondTraders}
        /\ Axes[FirstDifferingAxis(ai_traders[i].ship.position,
                                   ai_traders[i].ship.destination[1])] = "sector_y"
        /\ ai_traders[i].ship.position.sector_x
              \notin {t.ship.position.sector_x : t \in FirstTraders \cup SecondTraders}

----------------------------------------------------------------------------
(* Properties of the buy and sell decisions *)

\* the least element of a non-empty set of integers
Least(S) == CHOOSE x \in S : \A y \in S : x <= y

\* one of the four refusals applies to the purchase
Refusal(ship, commodity, price) ==
    \/ ship.personality = "Cautious" /\ 100 * price > 105 * BasePrice(commodity)
    \/ ship.personality = "Aggressive" /\ 100 * price > 125 * BasePrice(commodity)
    \/ 100 * price > 115 * BasePrice(commodity)
    \/ ship.personality = "Specialist" /\ commodity \notin ship.preferred_commodities

\* 5 for Cautious, 25 for Aggressive, 20 for an Opportunist below a price
\* ratio of 0.9 and 10 otherwise, 30 for a Specialist
PersonalityCap(ship, commodity, price) ==
    CASE ship.personality = "Cautious"    -> 5
      [] ship.personality = "Aggressive"  -> 25
      [] ship.personality = "Opportunist" ->
             IF 10 * price < 9 * BasePrice(commodity) THEN 20 ELSE 10
      [] ship.personality = "Specialist"  -> 30

\* max(0, min(cap, floor(credits x riskTolerance / buyPrice), space, stock))
QuantityWhenNotRefused(ship, commodity, market) ==
    LET price == market.commodities[commodity]
        space == ship.max_cargo
                 - SumSeq([k \in 1..Len(CommodityType) |-> ship.cargo_hold[CommodityType[k]]])
        least == Least({PersonalityCap(ship, commodity, price),
                        (ship.credits * ship.risk_tolerance) \div (100 * price),
                        space,
                        market.stock_levels[commodity]})
    IN IF least > 0 THEN least ELSE 0

\* the scenario of C4: Cautious, credits 1000, riskTolerance 0.3, Food at 95
ScenarioTrader ==
    NewTrader("Cautious", Pos(0, 0, 0, 0), 30, 80, 1000 * 100, 70,
              [c \in Commodities |-> 0], {})
ScenarioMarket ==
    [commodities   |-> [c \in Commodities |-> IF c = "Food" THEN 95 * 100 ELSE BasePrice(c)],
     supply_demand |-> [c \in Commodities |-> 100],
     stock_levels  |-> [c \in Commodities |-> 40]]

\* C4: when _should_buy_commodity does not refuse, the quantity it returns is
\* max(0, min(personality cap, floor(credits x riskTolerance / buyPrice),
\* remaining cargo space, station stock)), for every trader at every station's
\* market; a Cautious trader with credits 1000 and riskTolerance 0.3 buys 3 of
\* Food at 95
C4_BuyQuantity ==
    /\ \A i \in 1..Len(ai_traders), s \in 1..Len(stations), c \in Commodities :
          LET ship   == ai_traders[i].ship
              market == stations[s].market
          IN ~Refusal(ship, c, market.commodities[c])
                => should_buy_commodity(ai_traders[i], c, market)
                      = QuantityWhenNotRefused(ship, c, market)
    /\ should_buy_commodity(ScenarioTrader, "Food", ScenarioMarket) = 3

\* C4 is exercised: a trader is about to run a trade pass at a station where
\* a purchase is not refused and the affordable quantity is what limits it
C4_Witness ==
    /\ Updating("trade")
    /\ \E s \in 1..Len(stations), c \in Commodities :
          LET ship   == ai_traders[cur].ship
              market == stations[s].market
              afford == (ship.credits * ship.risk_tolerance) \div (100 * market.commodities[c])
          IN /\ SamePosition(ship.position, stations[s].position)
             /\ 10 * (game_time - ship.last_trade_time) >= 200 - ship.risk_tolerance
             /\ ~Refusal(ship, c, market.commodities[c])
             /\ afford > 0
             /\ afford < PersonalityCap(ship, c, market.commodities[c])
             /\ afford < market.stock_levels[c]
             /\ QuantityWhenNotRefused(ship, c, market) = afford

\* C5: _should_buy_commodity returns 0 when the trader is Cautious and the
\* price ratio exceeds 1.05, when it is Aggressive and the ratio exceeds 1.25,
\* when the ratio exceeds 1.15 whatever the personality, and when it is a
\* Specialist and the commodity is not preferred; at a ratio equal to 1.05
\* (Cautious) or 1.15 (the others) the purchase is not refused by the
\* threshold: the quantity is the one of a purchase that is not refused
C5_BuyRefusals ==
    \A i \in 1..Len(ai_traders), s \in 1..Len(stations), c \in Commodities :
        LET ship     == ai_traders[i].ship
            market   == stations[s].market
            price    == market.commodities[c]
            base     == BasePrice(c)
            quantity == should_buy_commodity(ai_traders[i], c, market)
            foreign  == ship.personality = "Specialist" /\ c \notin ship.preferred_commodities
        IN /\ (ship.personality = "Cautious" /\ 100 * price > 105 * base) => quantity = 0
           /\ (ship.personality = "Aggressive" /\ 100 * price > 125 * base) => quantity = 0
           /\ 100 * price > 115 * base => quantity = 0
           /\ foreign => quantity = 0
           /\ (ship.personality = "Cautious" /\ 100 * price = 105 * base)
                 => quantity = QuantityWhenNotRefused(ship, c, market)
           /\ (ship.personality # "Cautious" /\ 100 * price = 115 * base /\ ~foreign)
                 => quantity = QuantityWhenNotRefused(ship, c, market)

\* C5 is exercised: a trader is about to run a trade pass at a station where
\* one commodity is refused on its price and another is not refused, while a
\* market of the galaxy offers a commodity at exactly the trader's threshold
\* in a quantity that a purchase would not leave at 0
C5_Witness ==
    /\ Updating("trade")
    /\ LET ship == ai_traders[cur].ship
       IN /\ \E s \in 1..Len(stations) :
                /\ SamePosition(ship.position, stations[s].position)
                /\ 10 * (game_time - ship.last_trade_time) >= 200 - ship.risk_tolerance
                /\ \E c \in Commodities :
                      /\ 100 * stations[s].market.commodities[c] > 115 * BasePrice(c)
                      /\ should_buy_commodity(ai_traders[cur], c, stations[s].market) = 0
                /\ \E c \in Commodities :
                      should_buy_commodity(ai_traders[cur], c, stations[s].market) > 0
          /\ \E s \in 1..Len(stations), c \in Commodities :
                /\ 100 * stations[s].market.commodities[c]
                      = (IF ship.personality = "Cautious" THEN 105 ELSE 115) * BasePrice(c)
                /\ should_buy_commodity(ai_traders[cur], c, stations[s].market) > 0

\* the required margin in hundredths: 0.05 Cautious, 0.15 Aggressive, 0.08
\* Opportunist, Specialist 0.12 for a preferred commodity and 0.03 otherwise
RequiredMargin(ship, commodity) ==
    CASE ship.personality = "Cautious"    -> 5
      [] ship.personality = "Aggressive"  -> 15
      [] ship.personality = "Opportunist" -> 8
      [] ship.personality = "Specialist"  ->
             IF commodity \in ship.preferred_commodities THEN 12 ELSE 3

\* the stored trend of the commodity exceeds 0.1; no stored trend counts as 0
TrendAboveTenth(trader, commodity) ==
    /\ commodity \in DOMAIN trader.market_analysis
    /\ 10 * trader.market_analysis[commodity][1] > trader.market_analysis[commodity][2]

\* (sellPrice - basePrice) / basePrice >= required margin
MarginReached(ship, commodity, market) ==
    100 * (market.commodities[commodity] - BasePrice(commodity))
        >= RequiredMargin(ship, commodity) * BasePrice(commodity)

\* C6: _should_sell_commodity returns false whenever the stored trend of the
\* commodity exceeds 0.1 and the patience exceeds 0.7, whatever the margin;
\* otherwise it returns true exactly when the margin reaches the required
\* margin of the personality; a commodity without stored trend has trend 0
C6_SellDecision ==
    \A i \in 1..Len(ai_traders), s \in 1..Len(stations), c \in Commodities :
        LET trader == ai_traders[i]
            market == stations[s].market
        IN should_sell_commodity(trader, c, market)
              = IF TrendAboveTenth(trader, c) /\ trader.ship.patience > 70
                THEN FALSE
                ELSE MarginReached(trader.ship, c, market)

\* C6 is exercised: a patient trader is about to run a trade pass at a station
\* holding a commodity whose margin is reached and whose stored trend exceeds
\* 0.1, so that the sale is held back, and another trader with a stored trend
\* above 0.1 is not patient
C6_Witness ==
    /\ Updating("trade")
    /\ \E s \in 1..Len(stations), c \in Commodities :
          LET trader == ai_traders[cur]
          IN /\ SamePosition(trader.ship.position, stations[s].position)
             /\ 10 * (game_time - trader.ship.last_trade_time) >= 200 - trader.ship.risk_tolerance
             /\ trader.ship.cargo_hold[c] > 0
             /\ trader.ship.patience > 70
             /\ TrendAboveTenth(trader, c)
             /\ MarginReached(trader.ship, c, stations[s].market)
             /\ ~should_sell_commodity(trader, c, stations[s].market)
    /\ \E j \in 1..Len(ai_traders), c \in Commodities :
          /\ ai_traders[j].ship.patience <= 70
          /\ TrendAboveTenth(ai_traders[j], c)

----------------------------------------------------------------------------
(* Properties of the trade gate and of the order of the updates *)

\* now - lastTradeTime >= 2.0 - riskTolerance
GateHolds(ship, now) == 10 * (now - ship.last_trade_time) >= 200 - ship.risk_tolerance

\* C7: during an update at time now an AI trader changes a market, its cargo,
\* its credits or its lastTradeTime only in the trade step and only if
\* now - lastTradeTime >= 2.0 - riskTolerance held when the update began; a
\* trade pass is then at least 2.0 - riskTolerance after the previous one and
\* not before time 2.0 - riskTolerance; when the gate fails the trade step
\* leaves market, cargo, credits and lastTradeTime unchanged
C7_TradeGate ==
    [][pc = "ai" =>
          LET before  == ai_traders[cur].ship
              after   == ai_traders'[cur].ship
              changed == \/ stations' # stations
                         \/ after.cargo_hold # before.cargo_hold
                         \/ after.credits # before.credits
                         \/ after.last_trade_time # before.last_trade_time
          IN /\ changed => phase = "trade" /\ GateHolds(before, game_time)
             /\ after.last_trade_time # before.last_trade_time
                   => /\ after.last_trade_time = game_time
                      /\ 10 * (after.last_trade_time - before.last_trade_time)
                            >= 200 - before.risk_tolerance
                      /\ 10 * after.last_trade_time >= 200 - before.risk_tolerance
             /\ (phase = "trade" /\ ~GateHolds(before, game_time))
                   => /\ stations' = stations
                      /\ after.cargo_hold = before.cargo_hold
                      /\ after.credits = before.credits
                      /\ after.last_trade_time = before.last_trade_time]_vars

\* C7 is exercised: a trader has just run its second or a later trade pass,
\* having been at the station with the gate shut in between
C7_Witness ==
    /\ Updating("plan")
    /\ LET ship == ai_traders[cur].ship
       IN /\ ship.last_trade_time = game_time
          /\ 10 * ship.last_trade_time >= 2 * (200 - ship.risk_tolerance)
          /\ Len(ai_traders[cur].profit_history) >= 1
          /\ StationAt(stations, ship.position) # 0
          /\ \E k \in 1..Len(ai_traders[cur].trade_memory) :
                ai_traders[cur].trade_memory[k].time = game_time

\* the phase that follows a phase within one trader's update
NextPhase(p) ==
    CASE p = "memory"  -> "analyze"
      [] p = "analyze" -> "trade"
      [] p = "trade"   -> "plan"
      [] p = "plan"    -> "move"

\* the entry of the trader's memory for the quadrant of station s
MemoryOf(trader, sts, s) ==
    {e \in {trader.trade_memory[k] : k \in 1..Len(trader.trade_memory)} :
        e.key = <<sts[s].position.quadrant_x, sts[s].position.quadrant_y>>}

\* C8: within one tick the traders are updated in the order of the list and
\* each update (memory, trend, trade, plan, move) completes before the next
\* begins, no other trader changing meanwhile; what a trader buys and sells
\* at a station is taken from and added to the station's stock and moves its
\* price in the tick itself, and a trader updated later at that station
\* records in its memory the prices the earlier one left and trades from the
\* stock and the prices the earlier one left
C8_UpdateOrder ==
    [][pc = "ai" =>
          LET s == StationAt(stations, ai_traders[cur].ship.position)
          IN /\ cur \in 1..Len(ai_traders)
             /\ game_time' = game_time
             /\ player_ship' = player_ship
             /\ \A j \in 1..Len(ai_traders) : j # cur => ai_traders'[j] = ai_traders[j]
             /\ IF phase # "move"
                THEN pc' = "ai" /\ cur' = cur /\ phase' = NextPhase(phase)
                ELSE IF cur < Len(ai_traders)
                THEN pc' = "ai" /\ cur' = cur + 1 /\ phase' = "memory"
                ELSE pc' = "prompt"
             /\ (phase = "memory" /\ s # 0)
                   => MemoryOf(ai_traders'[cur], stations, s)
                         = {[key    |-> <<stations[s].position.quadrant_x,
                                          stations[s].position.quadrant_y>>,
                             prices |-> stations[s].market.commodities,
                             time   |-> game_time]}
             /\ (phase = "trade" /\ s # 0)
                   => \A c \in Commodities :
                         LET bought == ai_traders'[cur].ship.cargo_hold[c]
                                       - ai_traders[cur].ship.cargo_hold[c]
                             old    == stations[s].market
                             new    == stations'[s].market
                         IN /\ new.stock_levels[c] = old.stock_levels[c] - bought
                            /\ bought > 0 => new.commodities[c] > old.commodities[c]
                            /\ bought < 0 => new.commodities[c] < old.commodities[c]
             /\ phase = "trade" => \A r \in 1..Len(stations) : r # s => stations'[r] = stations[r]
             /\ phase # "trade" => stations' = stations]_vars

\* C8 is exercised: both traders are at one station in one tick, the earlier
\* has traded a commodity in this tick, and the later has recorded for it the
\* price the trade left, which is not the one the earlier recorded when the
\* tick began
C8_Witness ==
    /\ pc = "ai" /\ cur = 2 /\ phase \in {"analyze", "trade"}
    /\ \E s \in 1..Len(stations), c \in Commodities :
          /\ SamePosition(ai_traders[1].ship.position, stations[s].position)
          /\ SamePosition(ai_traders[2].ship.position, stations[s].position)
          /\ ai_traders[1].ship.last_trade_time = game_time
          /\ \E a \in MemoryOf(ai_traders[1], stations, s), b \in MemoryOf(ai_traders[2], stations, s) :
                /\ a.time = game_time
                /\ b.time = game_time
                /\ b.prices[c] # a.prices[c]
                /\ b.prices[c] = stations[s].market.commodities[c]

----------------------------------------------------------------------------
(* Properties of adjust_price *)

\* after is what adjust_price(commodity, q) makes of before: with
\* damp = max(100, stock), the price is price x (1 - q / damp x 0.1), that is
\* price x (10 x damp - q) / (10 x damp), clamped to [0.5 x base, 2.0 x base]
\* and exact to the nearest cent; the stock is max(0, stock + q); all else is
\* as it was
AdjustedFrom(before, after, commodity, q) ==
    LET stock == before.stock_levels[commodity]
        price == before.commodities[commodity]
        den   == 10 * (IF stock > 100 THEN stock ELSE 100)
        num   == price * (den - q)
        base  == BasePrice(commodity)
    IN /\ after.stock_levels[commodity] = (IF stock + q > 0 THEN stock + q ELSE 0)
       /\ IF 2 * num < base * den
          THEN 2 * after.commodities[commodity] = base
          ELSE IF num > 2 * base * den
          THEN after.commodities[commodity] = 2 * base
          ELSE 2 * Abs(after.commodities[commodity] * den - num) <= den
       /\ \A o \in Commodities \ {commodity} :
             /\ after.commodities[o] = before.commodities[o]
             /\ after.stock_levels[o] = before.stock_levels[o]
       /\ after.supply_demand = before.supply_demand

\* a market with Food (base 100) at the given price and a stock of 100
FoodMarket(price) ==
    [commodities   |-> [c \in Commodities |-> IF c = "Food" THEN price ELSE BasePrice(c)],
     supply_demand |-> [c \in Commodities |-> 100],
     stock_levels  |-> [c \in Commodities |-> 100]]

\* C9: adjust_price(commodity, q) computes price and stock from the price and
\* the stock before the call: price' = clamp(price x (1 - q / max(100, stock)
\* x 0.1), 0.5 x base, 2.0 x base) and stock' = max(0, stock + q), the other
\* commodities unchanged, for every market of every reachable state; with
\* base 100, stock 100 and q = -50 the price becomes price x 1.05 and the
\* stock 50
C9_AdjustPriceFormula ==
    /\ \A s \in 1..Len(stations), c \in Commodities, q \in QuantityProbes :
          AdjustedFrom(stations[s].market, AdjustPrice(stations[s].market, c, q), c, q)
    /\ \A price \in {80 * 100, 100 * 100, 120 * 100} :
          LET after == AdjustPrice(FoodMarket(price), "Food", -50)
          IN /\ 100 * after.commodities["Food"] = 105 * price
             /\ after.stock_levels["Food"] = 50

\* C9 is exercised: the player has bought 50 of Food at a station that had 60
\* in stock at 99.00: the stock is 10 and the price 99.00 x 1.05
C9_Witness ==
    /\ player_ship.cargo_hold["Food"] = 50
    /\ \E s \in 1..Len(stations) :
          /\ SamePosition(player_ship.position, stations[s].position)
          /\ GeneratedStations[s].market.stock_levels["Food"] = 60
          /\ GeneratedStations[s].market.commodities["Food"] = 99 * 100
          /\ stations[s].market.stock_levels["Food"] = 10
          /\ 100 * stations[s].market.commodities["Food"] = 105 * 99 * 100
          /\ player_ship.credits = 5000 * 100 - 50 * 99 * 100

\* C10: in every reachable market state adjust_price(c, 0) leaves the price
\* and the stock of c, and of every other commodity, unchanged
C10_ZeroChangeIsNoOp ==
    \A s \in 1..Len(stations), c \in Commodities :
        LET after == AdjustPrice(stations[s].market, c, 0)
        IN /\ after.commodities = stations[s].market.commodities
           /\ after.stock_levels = stations[s].market.stock_levels
           /\ after = stations[s].market

\* C10 is exercised: a market whose prices are no longer whole credits and
\* one of whose stocks is exhausted, after purchases and sales at the station
C10_Witness ==
    \E s \in 1..Len(stations) :
        /\ \E c \in Commodities : stations[s].market.commodities[c] % 100 # 0
        /\ \E c \in Commodities :
              /\ stations[s].market.stock_levels[c] = 0
              /\ stations[s].market.commodities[c] > GeneratedStations[s].market.commodities[c]

----------------------------------------------------------------------------
(* Properties of positions and of distance_to *)

\* |a - b|
Gap(a, b) == IF a >= b THEN a - b ELSE b - a

\* 8 x the Manhattan distance between the quadrants when they differ, the
\* Manhattan distance between the sectors when they are equal
GridDistance(a, b) ==
    IF a.quadrant_x = b.quadrant_x /\ a.quadrant_y = b.quadrant_y
    THEN Gap(a.sector_x, b.sector_x) + Gap(a.sector_y, b.sector_y)
    ELSE 8 * (Gap(a.quadrant_x, b.quadrant_x) + Gap(a.quadrant_y, b.quadrant_y))

\* distance_to is symmetric, non-negative, 0 on equal positions and the grid
\* distance, on the positions of P
DistanceLaws(P) ==
    \A a \in P :
        /\ distance_to(a, a) = 0
        /\ \A b \in P :
              /\ distance_to(a, b) = distance_to(b, a)
              /\ distance_to(a, b) >= 0
              /\ distance_to(a, b) = GridDistance(a, b)

\* positions over both ends of every axis, a neighbour of one end and the middle
GridProbes ==
    {Pos(qx, qy, sx, sy) : qx \in {0, 1, 4, 7}, qy \in {0, 1, 4, 7}, sx \in {0, 1, 4, 7}, sy \in {0, 1, 4, 7}}

\* the laws on the probe positions
GridLaws == DistanceLaws(GridProbes)

\* the positions of the ships and of the stations, and the stored destinations
PositionsInPlay ==
    {stations[s].position : s \in 1..Len(stations)}
    \cup {ai_traders[i].ship.position : i \in 1..Len(ai_traders)}
    \cup {ai_traders[i].ship.destination[1] :
             i \in {j \in 1..Len(ai_traders) : ai_traders[j].ship.destination # None}}
    \cup {player_ship.position}

\* C11: for all positions a, b: distance_to(a, b) = distance_to(b, a),
\* distance_to(a, b) >= 0 and distance_to(a, a) = 0; the value is 8 x the
\* Manhattan distance between the quadrants when the quadrants differ and the
\* Manhattan distance between the sectors when they are equal; on the
\* positions over the ends and the middle of every axis and on the positions
\* of the ships, stations and destinations of every reachable state
C11_DistanceLaws ==
    /\ GridLaws
    /\ DistanceLaws(PositionsInPlay)

\* C11 is exercised: a trader has chosen, by distance_to among others, a
\* destination in another quadrant at distance 8 x 2, and the player is in the
\* quadrant of a station, one sector from it
C11_Witness ==
    /\ \E i \in 1..Len(ai_traders) :
          /\ ai_traders[i].ship.destination # None
          /\ distance_to(ai_traders[i].ship.position, ai_traders[i].ship.destination[1]) = 16
          /\ ai_traders[i].ship.position.quadrant_x # ai_traders[i].ship.destination[1].quadrant_x
          /\ ai_traders[i].ship.position.quadrant_y # ai_traders[i].ship.destination[1].quadrant_y
    /\ \E s \in 1..Len(stations) : distance_to(player_ship.position, stations[s].position) = 1

----------------------------------------------------------------------------
(* C12 *)

\* all four coordinates of a position lie in 0..7
OnGrid(p) ==
    /\ p.quadrant_x \in 0..7 /\ p.quadrant_y \in 0..7
    /\ p.sector_x \in 0..7 /\ p.sector_y \in 0..7

\* movement commands the player may type, well-formed and not
MoveProbes ==
    { Cmd_move, <<"m">>, <<"m", "7">>, <<"m", "0", "0">>, <<"m", "7", "7">>,
      <<"m", "8", "0">>, <<"m", "0", "9">>, <<"m", "x", "3">>, <<"m", "-", "1">>,
      <<"m", "0", "0", "0", "0">>, <<"m", "7", "7", "7", "7">>, <<"m", "8", "0", "0", "0">>,
      <<"m", "0", "0", "0", "8">>, <<"m", "1", "1", "9", "1">>, <<"m", "1", "x", "1", "1">>,
      <<"m", "1", "1", "1", "1", "1">> }

\* C12: in every reachable state all four coordinates of every AI ship, of
\* the player ship and of every stored destination lie in 0..7, and they
\* still do after any movement command typed in that state, after a dock
\* command, and after a movement step of any trader with or without a detour
C12_CoordinatesOnGrid ==
    /\ OnGrid(player_ship.position)
    /\ \A i \in 1..Len(ai_traders) :
          /\ OnGrid(ai_traders[i].ship.position)
          /\ ai_traders[i].ship.destination # None
                => OnGrid(ai_traders[i].ship.destination[1])
          /\ \A roll \in BOOLEAN :
                LET after == move_ship(ai_traders[i], stations, roll)
                IN /\ OnGrid(after.ship.position)
                   /\ after.ship.destination # None => OnGrid(after.ship.destination[1])
    /\ \A command \in MoveProbes :
          OnGrid(handle_move_command(player_ship, command).position)
    /\ OnGrid(dock_at_station(player_ship, stations).position)

\* C12 is exercised: the player has moved by a command, a trader has moved
\* onto the edge of the grid and has a stored destination
C12_Witness ==
    /\ player_ship.position \notin PlayerStarts
    /\ \E i \in 1..Len(ai_traders) :
          /\ ai_traders[i].ship.destination # None
          /\ ai_traders[i].ship.position.quadrant_x = 0
          /\ \A st \in FirstTraders \cup SecondTraders :
                st.ship.personality = ai_traders[i].ship.personality
                   => st.ship.position # ai_traders[i].ship.position

----------------------------------------------------------------------------
(* C13 *)

\* the fraction t = <<num, den>> equals a / b (b > 0): the same in lowest terms
FractionIs(t, a, b) ==
    LET RECURSIVE gcd(_, _)
        gcd(x, y) == IF y = 0 THEN x ELSE gcd(y, x % y)
        g == gcd(Abs(t[1]), t[2])
        h == gcd(Abs(a), b)
    IN t[2] > 0 /\ t[1] \div g = a \div h /\ t[2] \div g = b \div h

\* the sum of prices[a..b]
SumFromTo(prices, a, b) ==
    LET RECURSIVE upto(_)
        upto(k) == IF k < a THEN 0 ELSE prices[k] + upto(k - 1)
    IN upto(b)

\* what the claim says of the trend of a list of remembered prices
TrendAsStated(prices, t) ==
    LET n == Len(prices)
    IN /\ n = 2 =>
             IF prices[1] > 0
             THEN FractionIs(t, prices[2] - prices[1], prices[1])
             ELSE t[1] = 0
       /\ n >= 4 =>
             LET recent3 == SumFromTo(prices, n - 2, n)
                 older   == SumFromTo(prices, 1, n - 3)
             IN IF older > 0
                \* (recent3/3 - older/(n-3)) / (older/(n-3))
                THEN FractionIs(t, recent3 * (n - 3) - 3 * older, 3 * older)
                ELSE t[1] = 0

\* prices an agent may remember, in cents
PriceProbeValues == {0, 10000, 11000, 12500}
MaxRemembered == 5

\* lists of 2..MaxRemembered remembered prices
PriceListProbes ==
    UNION {[1..n -> PriceProbeValues] : n \in 2..MaxRemembered}

\* the stated trend on the probe lists; [100, 110] gives 0.10
TrendProbeLaws ==
    /\ \A prices \in PriceListProbes : TrendAsStated(prices, Trend(prices))
    /\ FractionIs(Trend(<<10000, 11000>>), 1, 10)

\* C13: with 2 remembered prices the trend refresh stores (last - first) /
\* first, so [100, 110] gives 0.10; with 4 or more it stores (mean of the last
\* 3 - mean of the earlier ones) / mean of the earlier ones; the trend is 0
\* when the older average is not positive; on the probe lists and on what
\* every trader of every reachable state remembers
C13_TrendRefresh ==
    /\ TrendProbeLaws
    /\ \A i \in 1..Len(ai_traders) :
          Len(ai_traders[i].trade_memory) >= 2 =>
             LET after == analyze_market_trends(ai_traders[i])
             IN \A c \in Commodities :
                   /\ c \in DOMAIN after.market_analysis
                   /\ TrendAsStated(
                          [k \in 1..Len(ai_traders[i].trade_memory) |->
                              ai_traders[i].trade_memory[k].prices[c]],
                          after.market_analysis[c])

\* C13 is exercised: a trader remembers two prices of a commodity and the
\* refresh has stored a trend that is not 0 from them
C13_Witness ==
    \E i \in 1..Len(ai_traders), c \in Commodities :
        /\ Len(ai_traders[i].trade_memory) = 2
        /\ c \in DOMAIN ai_traders[i].market_analysis
        /\ ai_traders[i].market_analysis[c][1] # 0
        /\ ai_traders[i].market_analysis[c]
              = Trend(<<ai_traders[i].trade_memory[1].prices[c],
                        ai_traders[i].trade_memory[2].prices[c]>>)

----------------------------------------------------------------------------
(* C14 *)

\* two states agree on what the decisions are said to depend on
AgreeAsListed(t1, st1, t2, st2, c) ==
    /\ t1.ship.personality = t2.ship.personality
    /\ t1.ship.preferred_commodities = t2.ship.preferred_commodities
    /\ t1.ship.risk_tolerance = t2.ship.risk_tolerance
    /\ t1.ship.patience = t2.ship.patience
    /\ st1.market.commodities[c] = st2.market.commodities[c]
    /\ st1.market.stock_levels[c] = st2.market.stock_levels[c]
    /\ TrendOf(t1, c) = TrendOf(t2, c)
    /\ t1.ship.credits = t2.ship.credits
    /\ t1.ship.cargo_hold = t2.ship.cargo_hold

\* ... and on the cargo capacity of the ship
AgreeWithCapacity(t1, st1, t2, st2, c) ==
    /\ AgreeAsListed(t1, st1, t2, st2, c)
    /\ t1.ship.max_cargo = t2.ship.max_cargo

\* the trader with the rest of its state replaced: position, destination,
\* time of the last trade, memory, profit history, time of the last analysis
\* and the trends of the other commodities
RestOfTraderChanged(trader, c, n) ==
    [trader EXCEPT
        !.ship.position = Pos(7 - n, n, 7 - n, n),
        !.ship.destination = IF @ = None THEN Some(Pos(n, n, n, n)) ELSE None,
        !.ship.last_trade_time = @ + 10 * n + 1,
        !.trade_memory = <<>>,
        !.profit_history = <<n>>,
        !.last_analysis_time = @ + n,
        !.market_analysis =
            [k \in {k \in Commodities : k # c \/ k \in DOMAIN @} |->
                IF k = c THEN @[k] ELSE <<n, 1>>]]

\* the station with the rest of its state replaced: name, type, position, and
\* the prices and stock levels of the other commodities
RestOfStationChanged(station, c, n) ==
    [station EXCEPT
        !.name = "Elsewhere",
        !.station_type = IF @ = "Trading Post" THEN "Mining Colony" ELSE "Trading Post",
        !.position = Pos(n, 7 - n, n, 7 - n),
        !.market.commodities = [k \in Commodities |-> IF k = c THEN @[k] ELSE MinPrice(k) + n],
        !.market.stock_levels = [k \in Commodities |-> IF k = c THEN @[k] ELSE 1000 * n]]

\* states that differ from <<trader, station, now>> in the rest of the state
\* and in the time argument; the last one also in the cargo capacity
OtherStates(trader, station, c, now) ==
    { [self    |-> RestOfTraderChanged(trader, c, 0),
       station |-> RestOfStationChanged(station, c, 0),
       now     |-> 0],
      [self    |-> RestOfTraderChanged(trader, c, 3),
       station |-> RestOfStationChanged(station, c, 3),
       now     |-> now + 1000],
      [self    |-> [RestOfTraderChanged(trader, c, 5) EXCEPT
                       !.ship.max_cargo = total_cargo(trader.ship) + 1],
       station |-> RestOfStationChanged(station, c, 5),
       now     |-> now] }

\* both decisions are the same in the two states
SameDecisions(t1, st1, now1, t2, st2, now2, c) ==
    /\ ShouldSellCall(t1, c, st1, now1).returned = ShouldSellCall(t2, c, st2, now2).returned
    /\ ShouldBuyCall(t1, c, st1, now1).returned = ShouldBuyCall(t2, c, st2, now2).returned

\* a call of either decision leaves the trader and the station as they were
CallsChangeNothing(trader, station, c, now) ==
    /\ ShouldSellCall(trader, c, station, now).self = trader
    /\ ShouldSellCall(trader, c, station, now).station = station
    /\ ShouldBuyCall(trader, c, station, now).self = trader
    /\ ShouldBuyCall(trader, c, station, now).station = station

\* the traders whose update is at the step that makes the calls
Deciding == IF pc = "ai" /\ phase = "trade" THEN {cur} ELSE {}

\* C14 as stated: two calls made in states that agree on personality,
\* preferred set, risk tolerance, patience, the station's price and stock of
\* the commodity, the stored trend, credits and cargo return the same
\* decision, whatever the rest of the state or the time argument is
C14_DecisionsFromListedInputs ==
    \A i \in Deciding, s \in 1..Len(stations), c \in Commodities :
        \A o \in OtherStates(ai_traders[i], stations[s], c, game_time) :
            AgreeAsListed(ai_traders[i], stations[s], o.self, o.station, c)
               => SameDecisions(ai_traders[i], stations[s], game_time,
                                o.self, o.station, o.now, c)

\* C14, amended: _should_sell_commodity and _should_buy_commodity change no
\* state, and two calls made in states that agree on personality, preferred
\* set, risk tolerance, patience, the station's price and stock of the
\* commodity, the stored trend, credits, cargo and the cargo capacity of the
\* ship return the same decision, whatever the rest of the state or the time
\* argument is; for the trader whose update is at its trading step, at every
\* station and for every commodity
C14_DecisionsPure ==
    \A i \in Deciding, s \in 1..Len(stations), c \in Commodities :
        /\ CallsChangeNothing(ai_traders[i], stations[s], c, game_time)
        /\ \A o \in OtherStates(ai_traders[i], stations[s], c, game_time) :
              AgreeWithCapacity(ai_traders[i], stations[s], o.self, o.station, c)
                 => SameDecisions(ai_traders[i], stations[s], game_time,
                                  o.self, o.station, o.now, c)

\* C14 is exercised: a trader is about to trade at the station it is at, it
\* would sell a commodity it holds and buy more than one unit of a commodity,
\* and a state that differs in the rest agrees on what the decisions depend on
C14_Witness ==
    /\ pc = "ai" /\ phase = "trade"
    /\ StationAt(stations, ai_traders[cur].ship.position) # 0
    /\ LET trader  == ai_traders[cur]
           station == stations[StationAt(stations, trader.ship.position)]
       IN /\ \E c \in Commodities :
                /\ trader.ship.cargo_hold[c] > 0
                /\ ShouldSellCall(trader, c, station, game_time).returned
          /\ \E c \in Commodities :
                /\ ShouldBuyCall(trader, c, station, game_time).returned > 1
                /\ \E o \in OtherStates(trader, station, c, game_time) :
                      /\ o.self # trader /\ o.station # station
                      /\ AgreeWithCapacity(trader, station, o.self, o.station, c)

----------------------------------------------------------------------------
(* C15 *)

\* Game.show_help: the commands of the help text, each with the handler
\* that performs the action the text documents for it
HelpListing ==
    { <<Cmd_move, "handle_move_command">>,
      <<(<<"m", "1", "2", "3", "4">>), "handle_move_command">>,
      <<(<<"m", "3", "4">>), "handle_move_command">>,
      <<Cmd_scan, "scan_area">>, <<Cmd_s, "scan_area">>,
      <<Cmd_dock, "dock_at_station">>, <<Cmd_d, "dock_at_station">>,
      <<Cmd_market, "show_market">>, <<Cmd_mk, "show_market">>,
      <<Cmd_trade, "trade_menu">>, <<Cmd_t, "trade_menu">>,
      <<Cmd_save, "save_game">>,
      <<Cmd_help, "show_help">>, <<Cmd_h, "show_help">>,
      <<Cmd_quit, "quit">>, <<Cmd_q, "quit">> }

\* C15: whenever the player is prompted for a command, every command listed
\* by the in-game help is dispatched by process_command to the handler that
\* performs the documented action
C15_HelpCommandsDispatched ==
    AtPrompt => \A listed \in HelpListing : Handler(listed[1]) = listed[2]

----------------------------------------------------------------------------
(* C16 *)

\* Game.process_command as one step from the current state: the player ship,
\* the stations and the running flag after the command; script is what the
\* player types in the trading menu
ProcessCommand(command, script) ==
    LET handler == Handler(command)
        s       == StationAt(stations, player_ship.position)
        same    == [player_ship |-> player_ship, stations |-> stations, running |-> running]
    IN IF handler = "handle_move_command"
       THEN [same EXCEPT !.player_ship = handle_move_command(player_ship, command)]
       ELSE IF handler = "dock_at_station"
       THEN [same EXCEPT !.player_ship = dock_at_station(player_ship, stations)]
       ELSE IF handler = "trade_menu" /\ s # 0
       THEN LET done == trade_menu([ship |-> player_ship, market |-> stations[s].market], script)
            IN [same EXCEPT !.player_ship = done.ship, !.stations[s].market = done.market]
       ELSE IF handler = "quit"
       THEN [same EXCEPT !.running = FALSE]
       ELSE same

\* AITrader.update up to its trade (lines 145-155): the trader and the
\* stations after them
UpdateUntilTrade(trader, sts, now) ==
    LET remembered == update_trade_memory(trader, sts, now)
        analyzed   == IF now - remembered.last_analysis_time > 50
                      THEN [analyze_market_trends(remembered) EXCEPT !.last_analysis_time = now]
                      ELSE remembered
        s          == StationAt(sts, analyzed.ship.position)
        market     == sts[s].market
        done       == trade_at_station(analyzed, market, now)
    IN IF s = 0
       THEN [trader |-> analyzed, stations |-> sts]
       ELSE [trader |-> done.trader, stations |-> [sts EXCEPT ![s].market = done.market]]

\* Galaxy.update_ai_traders: the stations after the update of the traders
\* from the k-th on, in list order
RECURSIVE StationsAfterUpdate(_, _, _, _)
StationsAfterUpdate(traders, sts, now, k) ==
    LET before == sts
        after  == UpdateUntilTrade(traders[k], before, now).stations
    IN IF k > Len(traders) THEN before
       ELSE StationsAfterUpdate(traders, after, now, k + 1)

\* one iteration of game_loop on a command (lines 710-718): the player ship
\* and the stations at its end
LoopIteration(command, script) ==
    LET done == ProcessCommand(command, script)
    IN [player_ship |-> done.player_ship,
        running     |-> done.running,
        stations    |-> IF (turn_count + 1) % 3 = 0
                        THEN StationsAfterUpdate(ai_traders, done.stations, game_time + 1, 1)
                        ELSE done.stations]

\* commands that no branch of process_command recognises
InvalidCommands == { <<"x">>, <<>>, <<"b", "u", "y">>, <<"s", "t">>, <<"1">> }

\* the prices and stock levels of every station
Markets(sts) == [s \in 1..Len(sts) |-> sts[s].market]

\* C16 as stated: over the game-loop iteration that processes an invalid
\* command, the player ship and every station's market prices and stock are
\* the same as before the command
C16_InvalidCommandIteration ==
    AtPrompt =>
       \A command \in InvalidCommands :
           LET it == LoopIteration(command, <<>>)
           IN /\ it.player_ship = player_ship
              /\ Markets(it.stations) = Markets(stations)

\* C16, amended: an invalid command is taken by no branch of process_command
\* and its processing changes no state; over the game-loop iteration that
\* processes it the player ship is the same as before the command, and so are
\* every station's market prices and stock unless the iteration ends a turn
\* that is a multiple of 3, where the update of the AI traders runs
C16_InvalidCommandRejected ==
    AtPrompt =>
       \A command \in InvalidCommands :
           LET done == ProcessCommand(command, <<>>)
               it   == LoopIteration(command, <<>>)
           IN /\ Handler(command) = "unknown"
              /\ done.player_ship = player_ship
              /\ done.stations = stations
              /\ done.running = running
              /\ it.player_ship = player_ship
              /\ (turn_count + 1) % 3 # 0 => Markets(it.stations) = Markets(stations)

\* C16 is exercised: the player may type an invalid command, has typed
\* commands before, and the iteration that processes the invalid command
\* runs an update in which a trader trades
C16_Witness ==
    /\ AtPrompt
    /\ <<"x">> \in CommandsNow
    /\ turn_count > PlayerFirstTurn
    /\ Markets(LoopIteration(<<"x">>, <<>>).stations) # Markets(stations)

----------------------------------------------------------------------------
(* C17 *)

\* max = min(affordable, cargo space, stock) of the buy dialog
MaxBuy(ship, market, commodity) ==
    Least({ship.credits \div market.commodities[commodity],
           ship.max_cargo - total_cargo(ship),
           market.stock_levels[commodity]})

\* the commodities the ship holds, in the order of the cargo listing
Held(ship) == SelectSeq(CommodityType, LAMBDA c : ship.cargo_hold[c] > 0)

\* what the player may type as a selection or as a quantity
SelectionProbes == {NotANumber} \cup {Typed(n) : n \in {-1, 0, 1, 2, 6, 7}}
QuantityTyped(max) ==
    {NotANumber} \cup {Typed(n) : n \in {-5, 0, 1, max, max + 1, 1000}}

\* credits, cargo, price and stock are as before the dialog
NothingTraded(before, after) ==
    /\ after.ship.credits = before.ship.credits
    /\ after.ship.cargo_hold = before.ship.cargo_hold
    /\ after.market.commodities = before.market.commodities
    /\ after.market.stock_levels = before.market.stock_levels

\* the buy dialog on one typed selection and quantity
BuyDialogChecked(st, selection, quantity) ==
    LET after == buy_goods(st, selection, quantity)
        listed == selection.ok /\ selection.val \in 1..Len(CommodityType)
        c      == CommodityType[selection.val]
        valid  == listed /\ quantity.ok
                     /\ quantity.val \in 1..MaxBuy(st.ship, st.market, c)
    IN IF valid
       THEN /\ after.ship.cargo_hold[c] = st.ship.cargo_hold[c] + quantity.val
            /\ after.ship.credits = st.ship.credits - quantity.val * st.market.commodities[c]
            /\ after.market.stock_levels[c] = st.market.stock_levels[c] - quantity.val
       ELSE NothingTraded(st, after)

\* the sell dialog on one typed selection and quantity
SellDialogChecked(st, selection, quantity) ==
    LET after == sell_goods(st, selection, quantity)
        held   == Held(st.ship)
        listed == selection.ok /\ selection.val \in 1..Len(held)
        c      == held[selection.val]
        valid  == listed /\ quantity.ok /\ quantity.val \in 1..st.ship.cargo_hold[c]
    IN IF valid
       THEN /\ after.ship.cargo_hold[c] = st.ship.cargo_hold[c] - quantity.val
            /\ after.ship.credits = st.ship.credits + quantity.val * st.market.commodities[c]
            /\ after.market.stock_levels[c] = st.market.stock_levels[c] + quantity.val
       ELSE NothingTraded(st, after)

\* C17: in the player's buy and sell dialogs at the station the player is at,
\* a non-numeric selection or quantity, an out-of-range selection, or a
\* quantity outside 1..max (max = min(affordable, cargo space, stock) for
\* buying, the held quantity for selling) leaves the player's credits and
\* cargo and the station's price and stock unchanged; a transaction happens
\* only, and then for the typed quantity, when the quantity is within 1..max
C17_DialogsRejectBadInput ==
    LET s == StationAt(stations, player_ship.position)
    IN s # 0 =>
          LET st == [ship |-> player_ship, market |-> stations[s].market]
          IN \A selection \in SelectionProbes :
                /\ \A quantity \in QuantityTyped(
                          IF selection.ok /\ selection.val \in 1..Len(CommodityType)
                          THEN MaxBuy(st.ship, st.market, CommodityType[selection.val])
                          ELSE 1) :
                      BuyDialogChecked(st, selection, quantity)
                /\ \A quantity \in QuantityTyped(
                          IF selection.ok /\ selection.val \in 1..Len(Held(st.ship))
                          THEN st.ship.cargo_hold[Held(st.ship)[selection.val]]
                          ELSE 1) :
                      SellDialogChecked(st, selection, quantity)

\* C17 is exercised: the player is at a station after a purchase in the buy
\* dialog and a sale in the sell dialog, with goods on board and room left
C17_Witness ==
    /\ StationAt(stations, player_ship.position) # 0
    /\ player_ship.cargo_hold["Food"] = 30
    /\ player_ship.credits # create_player_ship(player_ship.position).credits
    /\ MaxBuy(player_ship, stations[StationAt(stations, player_ship.position)].market, "Food") > 1

----------------------------------------------------------------------------
(* C18 *)

\* C18 as stated: after any movement step at whose end the agent's position
\* equals its stored destination, the destination is cleared at the end of
\* that same step
C18_ClearedBySameStep ==
    [][ Updating("move") =>
           LET before == ai_traders[cur].ship
               after  == ai_traders'[cur].ship
           IN (before.destination # None /\ after.position = before.destination[1])
                 => after.destination = None ]_vars

\* C18, amended: a movement step that starts away from the stored destination
\* leaves it stored, also when it brings the agent onto it; the destination is
\* cleared by a later movement step that starts on the stored destination and
\* is not a detour, and that step does not move the agent; no other movement
\* step clears a destination
C18_ClearedByNextStep ==
    [][ Updating("move") =>
           LET before == ai_traders[cur].ship
               after  == ai_traders'[cur].ship
           IN before.destination # None =>
                 /\ before.position # before.destination[1]
                       => after.destination = before.destination
                 /\ before.position = before.destination[1]
                       => \/ /\ after.destination = None
                             /\ after.position = before.position
                          \/ /\ before.personality = "Opportunist"
                             /\ after.position # before.position
                             /\ after.destination = before.destination ]_vars

\* C18 is exercised: at the end of an update a trader stands on its stored
\* destination, which the step that brought it there has not cleared
C18_Witness ==
    /\ pc = "prompt"
    /\ \E i \in 1..Len(ai_traders) :
          /\ ai_traders[i].ship.destination # None
          /\ ai_traders[i].ship.position = ai_traders[i].ship.destination[1]

----------------------------------------------------------------------------
(* C19 *)

\* the per-axis coordinate differences |dqx|, |dqy|, |dsx|, |dsy|
AxisGaps(p, d) ==
    << Gap(p.quadrant_x, d.quadrant_x), Gap(p.quadrant_y, d.quadrant_y),
       Gap(p.sector_x, d.sector_x), Gap(p.sector_y, d.sector_y) >>

\* |dqx| + |dqy| + |dsx| + |dsy|
StepsNeeded(p, d) == SumSeq(AxisGaps(p, d))

\* the journey of an en-route trader that takes no detour and whose
\* destination is not re-selected, with n movement steps to go as stated: it
\* is not on the destination before the last of them, no step moves it away
\* on any axis, each step takes one off the steps needed, and the movement
\* step after the arrival clears the destination and leaves it there
RECURSIVE JourneyAsStated(_, _, _, _)
JourneyAsStated(trader, sts, dest, n) ==
    LET next == move_ship(trader, sts, FALSE)
    IN IF n = 0
       THEN /\ trader.ship.position = dest
            /\ next.ship.destination = None
            /\ next.ship.position = dest
       ELSE /\ trader.ship.position # dest
            /\ next.ship.destination = Some(dest)
            /\ \A axis \in 1..4 :
                  AxisGaps(next.ship.position, dest)[axis]
                     <= AxisGaps(trader.ship.position, dest)[axis]
            /\ StepsNeeded(next.ship.position, dest) = n - 1
            /\ JourneyAsStated(next, sts, dest, n - 1)

\* starts and destinations over the ends and the middle of every axis
JourneyProbes ==
    {Pos(qx, qy, sx, sy) : qx \in {0, 3, 7}, qy \in {0, 3, 7}, sx \in {0, 3, 7}, sy \in {0, 3, 7}}

\* a trader at p en route to d
EnRoute(p, d) == [ScenarioTrader EXCEPT !.ship.position = p, !.ship.destination = Some(d)]

\* the journeys between the probe positions
JourneyProbeLaws ==
    \A p \in JourneyProbes, d \in JourneyProbes :
        JourneyAsStated(EnRoute(p, d), GeneratedStations, d, StepsNeeded(p, d))

\* C19: an en-route agent whose destination is not re-selected and that
\* takes no detour reaches its destination after exactly |dqx| + |dqy| +
\* |dsx| + |dsy| movement steps, never moving away from it on any axis, and
\* the movement step after that clears its destination, so that it is idle
\* again; for every en-route trader of every reachable state and for the
\* journeys between the probe positions
C19_JourneyLength ==
    /\ JourneyProbeLaws
    /\ \A i \in 1..Len(ai_traders) :
          ai_traders[i].ship.destination # None =>
             JourneyAsStated(ai_traders[i], stations, ai_traders[i].ship.destination[1],
                             StepsNeeded(ai_traders[i].ship.position,
                                         ai_traders[i].ship.destination[1]))

\* C19 is exercised: a trader that has moved is en route to a destination in
\* another quadrant, with both a quadrant and a sector coordinate to change
C19_Witness ==
    \E i \in 1..Len(ai_traders) :
        /\ ai_traders[i].ship.destination # None
        /\ \A st \in FirstTraders \cup SecondTraders :
              st.ship.personality = ai_traders[i].ship.personality
                 => st.ship.position # ai_traders[i].ship.position
        /\ LET gaps == AxisGaps(ai_traders[i].ship.position, ai_traders[i].ship.destination[1])
           IN gaps[1] + gaps[2] > 0 /\ gaps[3] + gaps[4] > 0

----------------------------------------------------------------------------
(* C20 *)

\* the stations that are not at the trader's position
Elsewhere(trader, sts) ==
    {s \in 1..Len(sts) : sts[s].position # trader.ship.position}

\* the stations elsewhere whose score is maximal among them and above 0
TopScoring(trader, sts) ==
    {s \in Elsewhere(trader, sts) :
        /\ evaluate_station_opportunity(trader, sts, s) > 0
        /\ \A r \in Elsewhere(trader, sts) :
              evaluate_station_opportunity(trader, sts, r)
                 <= evaluate_station_opportunity(trader, sts, s)}

\* a destination re-evaluation of the trader among the stations sts gives
\* what is stated
ReevaluationAsStated(trader, sts) ==
    LET after == plan_movement(trader, sts, TRUE)
        top   == TopScoring(trader, sts)
    IN /\ top # {} =>
             /\ after.ship.destination = Some(sts[Least(top)].position)
             /\ after.ship.destination[1] # trader.ship.position
       /\ top = {} => after = trader
       /\ [after EXCEPT !.ship.destination = trader.ship.destination] = trader

\* two stations with the market of the third generated station, in the
\* quadrants of the second and of the third: from quadrant (0, 0) the two are
\* at the same distance and score the same
TwinStations ==
    << [GeneratedStations[3] EXCEPT !.position = GeneratedStations[2].position],
       GeneratedStations[3] >>

\* among stations with equal top scores the first in list order is selected
TieProbe ==
    /\ \A trader \in FirstTraders \cup SecondTraders :
          ReevaluationAsStated(trader, TwinStations)
    /\ \E trader \in FirstTraders \cup SecondTraders :
          /\ TopScoring(trader, TwinStations) = {1, 2}
          /\ plan_movement(trader, TwinStations, TRUE).ship.destination
                = Some(TwinStations[1].position)

\* stations whose prices are all the base prices: nothing to gain anywhere
FlatStations ==
    [s \in 1..Len(GeneratedStations) |->
        [GeneratedStations[s] EXCEPT
            !.market.commodities = [c \in Commodities |-> BasePrice(c)]]]

\* with no station scoring above 0 the destination is left as it is, stored
\* or not
NoGainProbe ==
    \A stored \in {None, Some(GeneratedStations[2].position)} :
        LET trader == [ScenarioTrader EXCEPT !.ship.destination = stored]
        IN /\ TopScoring(trader, FlatStations) = {}
           /\ ReevaluationAsStated(trader, FlatStations)
           /\ plan_movement(trader, FlatStations, TRUE).ship.destination = stored

\* the traders whose update is at its planning step
Planning == IF pc = "ai" /\ phase = "plan" THEN {cur} ELSE {}

\* C20: when destination re-evaluation runs, the new destination is the
\* position of the first station in list order, among the stations not at the
\* agent's position, whose score is maximal and strictly greater than 0; if
\* no station scores above 0 the stored destination is left unchanged (an
\* idle agent stays idle); without re-evaluation the destination is kept; the
\* agent never selects the station it is at, and a stored destination is
\* always the position of some station
C20_DestinationSelection ==
    /\ TieProbe
    /\ NoGainProbe
    /\ \A i \in Planning :
          /\ ReevaluationAsStated(ai_traders[i], stations)
          /\ ai_traders[i].ship.destination = None
                => plan_movement(ai_traders[i], stations, FALSE)
                      = plan_movement(ai_traders[i], stations, TRUE)
          /\ ai_traders[i].ship.destination # None
                => plan_movement(ai_traders[i], stations, FALSE) = ai_traders[i]
    /\ \A i \in 1..Len(ai_traders) :
          ai_traders[i].ship.destination # None
             => \E s \in 1..Len(stations) :
                   stations[s].position = ai_traders[i].ship.destination[1]

\* C20 is exercised: a trader at a station has just re-evaluated and stored
\* as its destination another station, the first of the top scoring ones
C20_Witness ==
    /\ pc = "ai" /\ phase = "move"
    /\ StationAt(stations, ai_traders[cur].ship.position) # 0
    /\ TopScoring(ai_traders[cur], stations) # {}
    /\ ai_traders[cur].ship.destination
          = Some(stations[Least(TopScoring(ai_traders[cur], stations))].position)
    /\ ai_traders[cur].ship.destination[1] # ai_traders[cur].ship.position

----------------------------------------------------------------------------
(* C21 *)

\* the stations a detour may go to: within distance 2 of the ship and not at
\* its position
NearbyStations(ship, sts) ==
    {s \in 1..Len(sts) :
        /\ GridDistance(sts[s].position, ship.position) <= 2
        /\ sts[s].position # ship.position}

\* the movement step of the trader, with and without the detour roll, is as
\* stated
DetourAsStated(trader, sts) ==
    LET before  == trader.ship
        rolled  == move_ship(trader, sts, TRUE)
        plain   == move_ship(trader, sts, FALSE)
    IN /\ before.destination # None =>
             \/ rolled = plain
             \/ /\ before.personality = "Opportunist"
                /\ rolled.ship.destination = before.destination
                /\ \E s \in NearbyStations(before, sts) :
                      /\ sts[s].position # before.destination[1]
                      /\ MovedOneStep(before, rolled.ship, sts[s].position)
                /\ [rolled EXCEPT !.ship.position = before.position] = trader
       /\ before.destination = None => rolled = trader /\ plain = trader
       /\ before.personality # "Opportunist" => rolled = plain
       /\ DetourStation(trader, sts) # 0 =>
             /\ DetourStation(trader, sts) \in NearbyStations(before, sts)
             /\ before.destination # None /\ before.personality = "Opportunist"
                   => /\ rolled.ship.destination = before.destination
                      /\ MovedOneStep(before, rolled.ship,
                                      sts[DetourStation(trader, sts)].position)

\* C21: a detour step moves the ship one unit toward the detour station and
\* leaves the stored destination as it was before the invocation, neither
\* replaced nor cleared; only Opportunist agents detour, and only to a station
\* at distance <= 2 that is not at the ship's position; for every trader of
\* every reachable state
C21_DetourKeepsDestination ==
    \A i \in 1..Len(ai_traders) : DetourAsStated(ai_traders[i], stations)

\* C21 is exercised: an Opportunist at its movement step has a stored
\* destination and a detour station that is not the destination, and the
\* detour step goes another way than the step to the destination
C21_Witness ==
    /\ pc = "ai" /\ phase = "move"
    /\ ai_traders[cur].ship.personality = "Opportunist"
    /\ ai_traders[cur].ship.destination # None
    /\ DetourStation(ai_traders[cur], stations) # 0
    /\ stations[DetourStation(ai_traders[cur], stations)].position
          # ai_traders[cur].ship.destination[1]
    /\ move_ship(ai_traders[cur], stations, TRUE).ship.position
          # move_ship(ai_traders[cur], stations, FALSE).ship.position

----------------------------------------------------------------------------
(* C22 *)

\* done is what a trade pass of the trader on the market gives when every
\* sale is executed before any purchase.  The pass of the same trader without
\* cargo capacity can buy nothing and gives the state after the sales; done has the
\* same profit entry, holds at least what the sales left, has paid every
\* purchase at the price the sales left, and its first purchase is the
\* quantity decided in the state the sales left.
SalesBeforePurchases(trader, market, now, done) ==
    LET broke    == trade_at_station([trader EXCEPT !.ship.max_cargo = 0], market, now)
        sold     == [broke.trader EXCEPT !.ship.max_cargo = trader.ship.max_cargo]
        Bought(c) == done.trader.ship.cargo_hold[c] - sold.ship.cargo_hold[c]
        first    == {c \in Commodities : Bought(c) > 0
                        /\ \A k \in 1..Len(CommodityType) :
                              (CommodityType[k] = c) =>
                                 \A j \in 1..(k - 1) : Bought(CommodityType[j]) = 0}
    IN /\ done.trader.profit_history = sold.profit_history
       /\ \A c \in Commodities :
             /\ Bought(c) >= 0
             /\ done.market.stock_levels[c] = broke.market.stock_levels[c] - Bought(c)
             /\ Bought(c) = 0 => done.market.commodities[c] = broke.market.commodities[c]
       /\ done.trader.ship.credits
             = sold.ship.credits
               - SumSeq([k \in 1..Len(CommodityType) |->
                           Bought(CommodityType[k]) * broke.market.commodities[CommodityType[k]]])
       /\ \A c \in first : Bought(c) = should_buy_commodity(sold, c, broke.market)

\* C22: within one agent update the phases run in the order memory refresh,
\* trend refresh, trade, destination selection, movement step, each phase
\* writing only what is its own; in the trade phase every sale is executed
\* before any purchase; the price held in memory for the tick is the price
\* before the agent's own trades of the tick; the update has not traded in
\* this tick when it begins and the movement step, which alone changes the
\* position, is its last step and trades nothing, so that an agent does not
\* trade at a station in the tick in which it arrives there
C22_PhasesInOrder ==
    [][ pc = "ai" =>
           LET me    == ai_traders[cur]
               after == ai_traders'[cur]
               s     == StationAt(stations, me.ship.position)
           IN /\ IF phase # "move"
                 THEN pc' = "ai" /\ cur' = cur /\ phase' = NextPhase(phase)
                 ELSE pc' = "prompt" \/ (cur' = cur + 1 /\ phase' = "memory")
              /\ phase = "memory" =>
                    /\ [after EXCEPT !.trade_memory = me.trade_memory] = me
                    /\ stations' = stations
                    /\ me.ship.last_trade_time < game_time
              /\ phase = "analyze" =>
                    /\ [after EXCEPT !.market_analysis = me.market_analysis,
                                      !.last_analysis_time = me.last_analysis_time] = me
                    /\ stations' = stations
              /\ phase = "trade" =>
                    /\ [after EXCEPT !.ship.cargo_hold = me.ship.cargo_hold,
                                      !.ship.credits = me.ship.credits,
                                      !.ship.last_trade_time = me.ship.last_trade_time,
                                      !.profit_history = me.profit_history] = me
                    /\ s = 0 => after = me /\ stations' = stations
                    /\ s # 0 =>
                          /\ SalesBeforePurchases(me, stations[s].market, game_time,
                                 [trader |-> after, market |-> stations'[s].market])
                          /\ MemoryOf(after, stations, s)
                                = {[key    |-> <<stations[s].position.quadrant_x,
                                                 stations[s].position.quadrant_y>>,
                                    prices |-> stations[s].market.commodities,
                                    time   |-> game_time]}
              /\ phase = "plan" =>
                    /\ [after EXCEPT !.ship.destination = me.ship.destination] = me
                    /\ stations' = stations
              /\ phase = "move" =>
                    /\ [after EXCEPT !.ship.position = me.ship.position,
                                      !.ship.destination = me.ship.destination] = me
                    /\ stations' = stations
              /\ phase # "move" => after.ship.position = me.ship.position ]_vars

\* C22 is exercised: a trader has sold and bought in one pass at the station
\* it is at, the prices it holds in memory for the tick are not those its
\* trades have left, and it arrived at the station in an earlier tick
C22_Witness ==
    /\ pc = "ai" /\ phase = "plan"
    /\ LET me == ai_traders[cur]
           s  == StationAt(stations, me.ship.position)
       IN /\ s # 0
          /\ me.ship.last_trade_time = game_time
          /\ me.profit_history # <<>>
          /\ \E e \in MemoryOf(me, stations, s) :
                /\ e.time = game_time
                /\ \E c \in Commodities : e.prices[c] < stations[s].market.commodities[c]
                /\ \E c \in Commodities : e.prices[c] > stations[s].market.commodities[c]

----------------------------------------------------------------------------
(* C23 *)

\* the most units of one commodity a personality sells in one sale
SellCap(personality) ==
    CASE personality = "Cautious"   -> 5
      [] personality = "Aggressive" -> 15
      [] OTHER                      -> 10

\* the sales of a trade pass of the trader on the market are as stated.  The
\* pass of the same trader without cargo capacity buys nothing and gives the
\* state after the sales.
SalesAsStated(trader, market, now) ==
    LET pass    == trade_at_station([trader EXCEPT !.ship.max_cargo = 0], market, now)
        Had(c) == trader.ship.cargo_hold[c]
        Sold(c) == Had(c) - pass.trader.ship.cargo_hold[c]
        Due(c)  == Had(c) > 0 /\ should_sell_commodity(trader, c, market)
    IN TradeGate(trader.ship, now) =>
          /\ \A c \in Commodities :
                /\ Due(c) => Sold(c) = Least({Had(c), SellCap(trader.ship.personality)})
                /\ ~Due(c) => Sold(c) = 0
                /\ LET adjusted == AdjustPrice(market, c, Sold(c))
                   IN Sold(c) > 0 =>
                         /\ pass.market.commodities[c] = adjusted.commodities[c]
                         /\ pass.market.stock_levels[c] = adjusted.stock_levels[c]
                         /\ pass.market.stock_levels[c] = market.stock_levels[c] + Sold(c)
                /\ Sold(c) = 0 =>
                         /\ pass.market.commodities[c] = market.commodities[c]
                         /\ pass.market.stock_levels[c] = market.stock_levels[c]
          /\ pass.trader.ship.credits
                = trader.ship.credits
                  + SumSeq([k \in 1..Len(CommodityType) |->
                              Sold(CommodityType[k]) * market.commodities[CommodityType[k]]])

\* C23: each AI sale of a held commodity that passes _should_sell_commodity
\* transfers min(held quantity, cap) units, cap 5 for Cautious, 15 for
\* Aggressive, 10 for Opportunist and Specialist: the cargo of the commodity
\* decreases by that amount, the credits increase by the amount times the
\* station price before the adjustment, the market is adjusted with
\* adjust_price(commodity, +amount), and each commodity is sold at most once
\* in a pass; for the trader at its trading step, at every station
C23_SaleTransfers ==
    \A i \in Deciding, s \in 1..Len(stations) :
        SalesAsStated(ai_traders[i], stations[s].market, game_time)

\* C23 is exercised: a trader at its trading step at a station passes the
\* gate and sells a commodity of which it holds more than its cap, so that
\* part of the holding stays on board
C23_Witness ==
    /\ pc = "ai" /\ phase = "trade"
    /\ StationAt(stations, ai_traders[cur].ship.position) # 0
    /\ TradeGate(ai_traders[cur].ship, game_time)
    /\ LET me     == ai_traders[cur]
           market == stations[StationAt(stations, me.ship.position)].market
       IN \E c \in Commodities :
             /\ me.ship.cargo_hold[c] > SellCap(me.ship.personality)
             /\ should_sell_commodity(me, c, market)

----------------------------------------------------------------------------
(* C24 *)

\* C24: whenever a trader at a station passes the trade gate at time now, its
\* last_trade_time equals now at the end of the trade step, whether or not
\* any commodity was sold or bought in that pass
C24_TradeTimeStamped ==
    [][ (/\ pc = "ai" /\ phase = "trade"
         /\ StationAt(stations, ai_traders[cur].ship.position) # 0
         /\ TradeGate(ai_traders[cur].ship, game_time))
        => /\ phase' = "plan"
           /\ ai_traders'[cur].ship.last_trade_time = game_time ]_vars

\* C24 is exercised: a trader at its trading step at a station passes the
\* gate with an earlier trade time, and the pass neither sells nor buys
C24_Witness ==
    /\ pc = "ai" /\ phase = "trade"
    /\ StationAt(stations, ai_traders[cur].ship.position) # 0
    /\ TradeGate(ai_traders[cur].ship, game_time)
    /\ ai_traders[cur].ship.last_trade_time < game_time
    /\ LET me   == ai_traders[cur]
           s    == StationAt(stations, me.ship.position)
           done == trade_at_station(me, stations[s].market, game_time)
       IN /\ done.trader.ship.cargo_hold = me.ship.cargo_hold
          /\ done.market = stations[s].market

----------------------------------------------------------------------------
(* C25 *)

\* the quantity changes the direction of the price is tried with: single
\* units, the amounts of a usual trade, and amounts beyond ten times the stock
DirectionProbes == {-500, -50, -1, 1, 50, 500}

\* the exact price change price x |change| / (10 x max(100, stock)) is at
\* least one cent, so that the stored price shows it
Resolved(market, c, change) ==
    market.commodities[c] * Abs(change) >= 10 * Max2(100, market.stock_levels[c])

\* on the market, a buy never lowers and a sell never raises the price of
\* the commodity, and the price moves unless the clamp holds it
DirectionLaw(market, c, change) ==
    LET before == market.commodities[c]
        after  == AdjustPrice(market, c, change).commodities[c]
    IN /\ change < 0 =>
            /\ after >= before
            /\ Resolved(market, c, change) => (after > before \/ after = MaxPrice(c))
            /\ after = before => (before = MaxPrice(c) \/ ~Resolved(market, c, change))
       /\ change > 0 =>
            /\ after <= before
            /\ Resolved(market, c, change) => (after < before \/ after = MinPrice(c))
            /\ after = before => (before = MinPrice(c) \/ ~Resolved(market, c, change))

\* markets with every price at the upper bound, at the lower bound, and one
\* cent inside either bound
BoundMarkets ==
    { [ScenarioMarket EXCEPT !.commodities = [c \in Commodities |-> MaxPrice(c) - d]]
        : d \in {0, 1} }
    \cup
    { [ScenarioMarket EXCEPT !.commodities = [c \in Commodities |-> MinPrice(c) + d]]
        : d \in {0, 1} }

\* at the bounds: the clamp holds the price of a buy at 2.0 x base and the
\* price of a sell at 0.5 x base, and the price leaves a bound in the other
\* direction
BoundLaws ==
    \A market \in BoundMarkets, c \in Commodities, change \in DirectionProbes :
        /\ DirectionLaw(market, c, change)
        /\ (market.commodities[c] = MaxPrice(c) /\ change < 0)
              => AdjustPrice(market, c, change).commodities[c] = MaxPrice(c)
        /\ (market.commodities[c] = MinPrice(c) /\ change > 0)
              => AdjustPrice(market, c, change).commodities[c] = MinPrice(c)
        /\ (market.commodities[c] = MaxPrice(c) /\ change >= 50)
              => AdjustPrice(market, c, change).commodities[c] < MaxPrice(c)
        /\ (market.commodities[c] = MinPrice(c) /\ change <= -50)
              => AdjustPrice(market, c, change).commodities[c] > MinPrice(c)

\* the states that follow world generation, a trade pass or a player command:
\* every market the program produces is the market of a station in one of them
MarketsWritten == pc = "prompt" \/ phase \in {"memory", "plan"}

\* C25: for a market whose price is within bounds, adjust_price with a
\* negative quantity change (a buy) never lowers the price and with a positive
\* quantity change (a sell) never raises it, and the price strictly moves in
\* that direction unless the clamp holds it at 2.0 x base or 0.5 x base; for
\* every station's market of every state and for the markets at the bounds
C25_PriceDirection ==
    /\ BoundLaws
    /\ MarketsWritten =>
          \A s \in 1..Len(stations), c \in Commodities, change \in DirectionProbes :
              MarketInRange(stations[s].market)
                => DirectionLaw(stations[s].market, c, change)

\* C25 is exercised: a trader has just traded at a station whose prices are
\* in range, leaving one price above and one price below the price it
\* remembered before the pass, and a further buy of 50 or sale of 50 moves a
\* price there while a buy of 500 runs into the clamp
C25_Witness ==
    /\ pc = "ai" /\ phase = "plan"
    /\ StationAt(stations, ai_traders[cur].ship.position) # 0
    /\ LET me     == ai_traders[cur]
           s      == StationAt(stations, me.ship.position)
           market == stations[s].market
       IN /\ MarketInRange(market)
          /\ \E e \in MemoryOf(me, stations, s) :
                /\ e.time = game_time
                /\ \E c \in Commodities : e.prices[c] < market.commodities[c]
                /\ \E c \in Commodities : e.prices[c] > market.commodities[c]
          /\ \E c \in Commodities :
                /\ AdjustPrice(market, c, -50).commodities[c] > market.commodities[c]
                /\ AdjustPrice(market, c, -50).commodities[c] < MaxPrice(c)
                /\ AdjustPrice(market, c, 50).commodities[c] < market.commodities[c]
                /\ AdjustPrice(market, c, -500).commodities[c] = MaxPrice(c)

----------------------------------------------------------------------------
(* C26 *)

\* an adjust_price call: the commodity, the quantity change passed, and the
\* market before and after the call
AdjustCall(commodity, change, before, after) ==
    [commodity |-> commodity, change |-> change, before |-> before, after |-> after]

\* the adjust_price calls of a trade pass of the trader on the market, in the
\* sell loop and then in the buy loop
PassCalls(trader, market, now) ==
    IF ~TradeGate(trader.ship, now) THEN {}
    ELSE LET start     == [trader |-> trader, market |-> market, total_profit |-> 0]
             sold      == SellUpTo(start, Len(CommodityType))
             Sale(k)   == LET c == CommodityType[k]
                              b == SellUpTo(start, k - 1)
                              a == SellOne(b, c)
                          IN AdjustCall(c, b.trader.ship.cargo_hold[c] - a.trader.ship.cargo_hold[c],
                                        b.market, a.market)
             Purchase(k) == LET c == CommodityType[k]
                                b == BuyUpTo(sold, k - 1)
                                a == BuyOne(b, c)
                            IN AdjustCall(c, b.trader.ship.cargo_hold[c] - a.trader.ship.cargo_hold[c],
                                          b.market, a.market)
         IN { call \in {Sale(k) : k \in 1..Len(CommodityType)}
                         \cup {Purchase(k) : k \in 1..Len(CommodityType)} :
                call.change # 0 }

\* the adjust_price calls the dialogs of the trade menu make for a docked
\* ship, over what the player may type
DialogCalls(st) ==
    LET Bought(c, n) == LET a == buy_goods(st, Typed(c), n)
                        IN AdjustCall(CommodityType[c],
                                      st.ship.cargo_hold[CommodityType[c]]
                                        - a.ship.cargo_hold[CommodityType[c]],
                                      st.market, a.market)
        held         == Available(st.ship)
        Sold(j, n)   == LET a == sell_goods(st, Typed(j), n)
                        IN AdjustCall(held[j],
                                      st.ship.cargo_hold[held[j]] - a.ship.cargo_hold[held[j]],
                                      st.market, a.market)
    IN { call \in
           UNION { {Bought(c, n) : n \in QuantityTyped(MaxBuy(st.ship, st.market, CommodityType[c]))}
                     : c \in 1..Len(CommodityType) }
           \cup
           UNION { {Sold(j, n) : n \in QuantityTyped(st.ship.cargo_hold[held[j]])}
                     : j \in 1..Len(held) } :
           call.change # 0 }

\* the call is what adjust_price computes, its quantity change is at most
\* max(100, stock before the call) in magnitude, and the price moves by at
\* most 10% of the price before the call; prices are stored to the nearest
\* cent, which adds at most half a cent
CallWithinTenth(call) ==
    LET c      == call.commodity
        price  == call.before.commodities[c]
        stock  == call.before.stock_levels[c]
        priced == call.after.commodities[c]
    IN /\ call.after = AdjustPrice(call.before, c, call.change)
       /\ Abs(call.change) <= Max2(100, stock)
       /\ 20 * Abs(priced - price) <= 2 * price + 10

\* the largest calls: the new player ship with a hold full of Food sells all
\* 100 units to a station that holds 40, and the new player ship buys all 100
\* units of Fuel that a station offers at 40.00; the quantity change equals
\* max(100, stock) and the price moves by exactly 10%
FullTradeProbe ==
    LET full   == [create_player_ship(Pos(0, 0, 0, 0)) EXCEPT !.cargo_hold["Food"] = 100]
        selling == [ship |-> full, market |-> ScenarioMarket]
        cheap  == [ScenarioMarket EXCEPT !.commodities["Fuel"] = MinPrice("Fuel"),
                                         !.stock_levels["Fuel"] = 100]
        buying == [ship |-> create_player_ship(Pos(0, 0, 0, 0)), market |-> cheap]
    IN /\ \A call \in DialogCalls(selling) \cup DialogCalls(buying) : CallWithinTenth(call)
       /\ \E call \in DialogCalls(selling) :
             /\ call.commodity = "Food" /\ call.change = 100
             /\ 10 * call.after.commodities["Food"] = 9 * call.before.commodities["Food"]
       /\ \E call \in DialogCalls(buying) :
             /\ call.commodity = "Fuel" /\ call.change = -100
             /\ 10 * call.after.commodities["Fuel"] = 11 * call.before.commodities["Fuel"]

\* C26: for every adjust_price call the program can make (AI sells and
\* buys, player sells and buys), the magnitude of the quantity change is at
\* most max(100, stock before the call), so the price changes by at most 10%
\* of its value before the call; for the pass of the trader at its trading
\* step at each station, and for the dialogs of the player at a station
C26_CallsWithinTenth ==
    /\ \A i \in Deciding, s \in 1..Len(stations) :
          LET market == stations[s].market
              start  == [trader |-> ai_traders[i], market |-> market, total_profit |-> 0]
          IN /\ \A call \in PassCalls(ai_traders[i], market, game_time) : CallWithinTenth(call)
             /\ BuyUpTo(SellUpTo(start, Len(CommodityType)), Len(CommodityType))
                   = BuyLoop(SellLoop(start, 1), 1)
    /\ (AtPrompt /\ StationAt(stations, player_ship.position) # 0) =>
          \A call \in DialogCalls([ship   |-> player_ship,
                                   market |-> stations[StationAt(stations, player_ship.position)].market]) :
              CallWithinTenth(call)
    /\ FullTradeProbe

\* C26 is exercised: a trader at its trading step at a station passes the
\* gate, and its pass sells and then buys the same commodity and makes a call
\* for a commodity of which the station holds less than 100
C26_Witness ==
    /\ pc = "ai" /\ phase = "trade"
    /\ StationAt(stations, ai_traders[cur].ship.position) # 0
    /\ LET calls == PassCalls(ai_traders[cur],
                              stations[StationAt(stations, ai_traders[cur].ship.position)].market,
                              game_time)
       IN /\ \E sale, purchase \in calls :
                /\ sale.commodity = purchase.commodity
                /\ sale.change > 0 /\ purchase.change < 0
          /\ \E call \in calls : call.before.stock_levels[call.commodity] < 100

----------------------------------------------------------------------------
(* C27 *)

\* AITrader.update (lines 142-159) as one step: the trader and the stations
\* after it, for the outcomes of the two random comparisons
Update(trader, sts, now, plan_roll, move_roll) ==
    LET traded  == UpdateUntilTrade(trader, sts, now)
        planned == plan_movement(traded.trader, traded.stations, plan_roll)
        moved   == move_ship(planned, traded.stations, move_roll)
    IN [trader |-> moved, stations |-> traded.stations]

\* of the ship only position, destination, cargo, credits and last trade
\* time differ, and of the trader only the ship, the memory, the trends with
\* the time of their refresh, and the profit history
OwnWritesOnly(before, after) ==
    /\ [after.ship EXCEPT !.position        = before.ship.position,
                          !.destination     = before.ship.destination,
                          !.cargo_hold      = before.ship.cargo_hold,
                          !.credits         = before.ship.credits,
                          !.last_trade_time = before.ship.last_trade_time] = before.ship
    /\ [after EXCEPT !.ship               = before.ship,
                     !.trade_memory       = before.trade_memory,
                     !.market_analysis    = before.market_analysis,
                     !.last_analysis_time = before.last_analysis_time,
                     !.profit_history     = before.profit_history] = before

\* of the stations only the market of the station at the position differs;
\* away from every station no market differs
OneMarketOnly(position, before, after) ==
    LET at == {r \in 1..Len(before) : before[r].position = position}
    IN /\ Len(after) = Len(before)
       /\ Cardinality(at) <= 1
       /\ \A r \in 1..Len(before) :
             /\ after[r].name = before[r].name
             /\ after[r].station_type = before[r].station_type
             /\ after[r].position = before[r].position
             /\ r \notin at => after[r] = before[r]

\* the update of the trader among the stations is framed as stated
UpdateFramed(trader, sts, now) ==
    \A plan_roll, move_roll \in BOOLEAN :
        LET done == Update(trader, sts, now, plan_roll, move_roll)
        IN /\ OwnWritesOnly(trader, done.trader)
           /\ OneMarketOnly(trader.ship.position, sts, done.stations)
           /\ (\A r \in 1..Len(sts) : sts[r].position # trader.ship.position)
                 => /\ done.stations = sts
                    /\ done.trader.trade_memory = trader.trade_memory

\* C27: one trader's update writes only that trader's own ship (position,
\* destination, cargo, credits, last trade time), its own memory, trends and
\* profit history, and the market of the single station it occupies at the
\* start of the update; every other station's market, every other trader, the
\* player's ship, and every station's name, category and position are
\* unchanged; a trader that is not at a station changes no market and adds no
\* memory entry.  Stated of every step of an update, which leaves the position
\* as at the start until the final movement, and of the whole update when it
\* starts.
C27_UpdateFrame ==
    [][ pc = "ai" =>
          LET me == ai_traders[cur]
          IN /\ player_ship' = player_ship
             /\ Len(ai_traders') = Len(ai_traders)
             /\ \A j \in 1..Len(ai_traders) : j # cur => ai_traders'[j] = ai_traders[j]
             /\ OwnWritesOnly(me, ai_traders'[cur])
             /\ OneMarketOnly(me.ship.position, stations, stations')
             /\ phase # "move" => ai_traders'[cur].ship.position = me.ship.position
             /\ (\A r \in 1..Len(stations) : stations[r].position # me.ship.position)
                   => /\ stations' = stations
                      /\ ai_traders'[cur].trade_memory = me.trade_memory
             /\ phase = "memory" => UpdateFramed(me, stations, game_time) ]_vars

\* C27 is exercised: the first trader has ended an update in which it traded
\* at a station, changing a price there after recording it, and moved away;
\* the update of the second trader, away from every station, begins
C27_Witness ==
    /\ pc = "ai" /\ cur = 2 /\ phase = "memory"
    /\ ai_traders[1].ship.last_trade_time = game_time
    /\ StationAt(stations, ai_traders[1].ship.position) = 0
    /\ StationAt(stations, ai_traders[2].ship.position) = 0
    /\ \E s \in 1..Len(stations) :
          \E e \in MemoryOf(ai_traders[1], stations, s) :
              /\ e.time = game_time
              /\ e.prices # stations[s].market.commodities

----------------------------------------------------------------------------
(* C28 *)

\* the units of the commodity in the world: the stock of every station and
\* the cargo of every trader and of the player
WorldUnits(sts, traders, player, c) ==
    SumSeq([s \in 1..Len(sts) |-> sts[s].market.stock_levels[c]])
    + SumSeq([i \in 1..Len(traders) |-> traders[i].ship.cargo_hold[c]])
    + player.cargo_hold[c]

\* the call leaves in stock exactly the stock before it plus its quantity
\* change: a purchase is no larger than the stock, the max(0, ...) of the
\* stock discards nothing
StockExact(call) ==
    /\ call.before.stock_levels[call.commodity] + call.change >= 0
    /\ call.after.stock_levels[call.commodity]
          = call.before.stock_levels[call.commodity] + call.change

\* C28: for every commodity the number of units in the world (the stock of
\* all stations plus the cargo of all AI ships and of the player) is the same
\* in every reachable state: every sale adds to the station's stock exactly
\* what leaves the ship, every purchase removes from the stock exactly what
\* enters the ship, and no purchase exceeds the station's stock, so that the
\* max(0, ...) clamp of the stock never discards units
C28_UnitsConserved ==
    [][ /\ \A c \in Commodities :
              WorldUnits(stations', ai_traders', player_ship', c)
                = WorldUnits(stations, ai_traders, player_ship, c)
        /\ \A i \in Deciding :
              LET s == StationAt(stations, ai_traders[i].ship.position)
              IN s # 0 =>
                    \A call \in PassCalls(ai_traders[i], stations[s].market, game_time) :
                        StockExact(call)
        /\ (AtPrompt /\ StationAt(stations, player_ship.position) # 0) =>
              \A call \in DialogCalls(
                     [ship   |-> player_ship,
                      market |-> stations[StationAt(stations, player_ship.position)].market]) :
                  StockExact(call) ]_vars

\* C28 is exercised: a station has been bought out of a commodity, which a
\* ship now carries, and a trader carries goods it did not start with
C28_Witness ==
    /\ \E s \in 1..Len(stations), c \in Commodities :
          /\ stations[s].market.stock_levels[c] = 0
          /\ \/ player_ship.cargo_hold[c] > 0
             \/ \E i \in 1..Len(ai_traders) : ai_traders[i].ship.cargo_hold[c] > 0
    /\ \E i \in 1..Len(ai_traders) : total_cargo(ai_traders[i].ship) > 18


----------------------------------------------------------------------------
(* Python's float arithmetic: binary64, every operation rounded to the     *)
(* nearest, ties to the even mantissa                                       *)

\* Natural numbers beyond the 32 binary digits of the integers of TLC: a
\* sequence of digits to the base 4096, least significant first, without
\* leading zero digits; <<>> is 0
Base == 64 * 64

RECURSIVE BigOfInt(_)
BigOfInt(n) == IF n = 0 THEN <<>> ELSE <<n % Base>> \o BigOfInt(n \div Base)

RECURSIVE BigToInt(_)
BigToInt(a) == IF a = <<>> THEN 0 ELSE a[1] + Base * BigToInt(Tail(a))

\* the largest member of a set of natural numbers
Largest(S) == CHOOSE k \in S : \A j \in S : j <= k

\* a without its leading zero digits
Trim(a) == SubSeq(a, 1, Largest({0} \cup {k \in 1..Len(a) : a[k] # 0}))

\* digit k of a, 0 beyond its length
Digit(a, k) == IF k \in 1..Len(a) THEN a[k] ELSE 0

\* the digits cols, each below 2^30, with the carries propagated
RECURSIVE Carry(_, _, _)
Carry(cols, k, carry) ==
    IF k > Len(cols)
    THEN BigOfInt(carry)
    ELSE <<(cols[k] + carry) % Base>> \o Carry(cols, k + 1, (cols[k] + carry) \div Base)

BigAdd(a, b) ==
    Trim(Carry([k \in 1..Max2(Len(a), Len(b)) |-> Digit(a, k) + Digit(b, k)], 1, 0))

\* a - b for a >= b
RECURSIVE Borrow(_, _, _, _)
Borrow(a, b, k, borrow) ==
    IF k > Len(a) THEN <<>>
    ELSE IF a[k] - Digit(b, k) - borrow < 0
         THEN <<a[k] - Digit(b, k) - borrow + Base>> \o Borrow(a, b, k + 1, 1)
         ELSE <<a[k] - Digit(b, k) - borrow>> \o Borrow(a, b, k + 1, 0)

BigSub(a, b) == Trim(Borrow(a, b, 1, 0))

\* -1, 0, 1 as a < b, a = b, a > b, for a and b of one length that differ
\* last at digit k, or nowhere when k = 0
CmpAt(a, b, k) == IF k = 0 THEN 0 ELSE IF a[k] < b[k] THEN -1 ELSE 1

\* -1, 0, 1 as a < b, a = b, a > b
BigCmp(a, b) ==
    IF Len(a) < Len(b) THEN -1
    ELSE IF Len(a) > Len(b) THEN 1
    ELSE CmpAt(a, b, Largest({0} \cup {k \in 1..Len(a) : a[k] # b[k]}))

BigMul(a, b) ==
    IF a = <<>> \/ b = <<>> THEN <<>>
    ELSE Trim(Carry([k \in 1..(Len(a) + Len(b) - 1) |->
                        SumSeq([i \in 1..Len(a) |-> a[i] * Digit(b, k + 1 - i)])], 1, 0))

\* a * d for a digit d
SmallMul(a, d) == Trim(Carry([k \in 1..Len(a) |-> a[k] * d], 1, 0))

\* 2^n for n below 12
Pow2(n) == <<1, 2, 4, 8, 16, 32, 64, 128, 256, 512, 1024, 2048>>[n + 1]

\* the number of binary digits of the digit n
IntBitLen(n) == Cardinality({k \in 0..11 : Pow2(k) <= n})

\* the number of binary digits of a
BigBitLen(a) == IF a = <<>> THEN 0 ELSE 12 * (Len(a) - 1) + IntBitLen(a[Len(a)])

\* a * 2^n
BigShl(a, n) ==
    IF a = <<>> THEN a
    ELSE [k \in 1..(n \div 12) |-> 0] \o SmallMul(a, Pow2(n % 12))

\* floor(rest / p) for p a power of 2 below Base
ShrDigits(rest, p) ==
    Trim([k \in 1..Len(rest) |-> (rest[k] \div p) + (Digit(rest, k + 1) % p) * (Base \div p)])

\* floor(a / 2^n)
BigShr(a, n) ==
    ShrDigits(IF n \div 12 >= Len(a) THEN <<>> ELSE SubSeq(a, (n \div 12) + 1, Len(a)),
              Pow2(n % 12))

\* a * Base + digit
ShiftIn(a, digit) ==
    IF a = <<>> THEN (IF digit = 0 THEN <<>> ELSE <<digit>>) ELSE <<digit>> \o a

\* the largest of the digits low + step * j, j in 0..15, whose product with b
\* is at most r; the product of b and low is at most r
LargestBelow(r, b, low, step) ==
    low + step * Largest({j \in 0..15 : BigCmp(SmallMul(b, low + step * j), r) <= 0})

\* the largest digit d with b * d <= r, for r < b * Base
QuotientDigit(r, b) ==
    IF BigCmp(r, b) < 0 THEN 0
    ELSE LargestBelow(r, b, LargestBelow(r, b, LargestBelow(r, b, 0, 256), 16), 1)

\* one step of the long division by b: high is [q |-> quotient, r |-> remainder]
\* of the digits above, r2 the remainder with the next digit shifted in
TakeDigit(high, r2, b) ==
    [high EXCEPT !.q = ShiftIn(@, QuotientDigit(r2, b)),
                 !.r = BigSub(r2, SmallMul(b, QuotientDigit(r2, b)))]

DivStep(high, digit, b) == TakeDigit(high, ShiftIn(high.r, digit), b)

\* long division by b # 0 of the digits k and above of a:
\* [q |-> quotient, r |-> remainder]; fewer digits than b has are less than b
RECURSIVE DivFrom(_, _, _)
DivFrom(a, b, k) ==
    IF k > Len(a) - Len(b) + 1
    THEN [q |-> <<>>, r |-> IF k > Len(a) THEN <<>> ELSE SubSeq(a, k, Len(a))]
    ELSE DivStep(DivFrom(a, b, k + 1), a[k], b)

BigDivMod(a, b) == DivFrom(a, b, 1)

\* A binary64 number is [s |-> 1 or -1, m |-> 53 binary digits, e |-> exponent],
\* the value s * m * 2^e; zero has m = <<>> and e = 0.  Values beyond the normal
\* range (below 2^-1022 or above 2^1023 in magnitude) do not occur here.
Binary64(s, m, e) == [s |-> s, m |-> m, e |-> e]
Zero64 == Binary64(1, <<>>, 0)

\* s * m * 2^e for m of 53 binary digits, or of 54 after a carry
Renormal(s, m, e) ==
    IF BigBitLen(m) > 53 THEN Binary64(s, BigShr(m, 1), e + 1) ELSE Binary64(s, m, e)

\* kept or kept + 1, the nearer; c compares the digits dropped with half of the
\* last digit kept, and ties go to the even one
Nearest(kept, c, sticky) ==
    IF c > 0 \/ (c = 0 /\ (sticky \/ kept[1] % 2 = 1)) THEN BigAdd(kept, <<1>>) ELSE kept

\* Round64 for n of 53 + d binary digits, d > 0
RoundOff(s, n, e, sticky, d) ==
    Renormal(s,
             Nearest(BigShr(n, d),
                     BigCmp(BigSub(n, BigShl(BigShr(n, d), d)), BigShl(<<1>>, d - 1)),
                     sticky),
             e + d)

\* the binary64 number nearest to s * n * 2^e, plus a fraction of the last
\* digit of n when sticky; ties go to the even mantissa
Round64(s, n, e, sticky) ==
    IF n = <<>> THEN Zero64
    ELSE IF BigBitLen(n) <= 53
    THEN Binary64(s, BigShl(n, 53 - BigBitLen(n)), e - (53 - BigBitLen(n)))
    ELSE RoundOff(s, n, e, sticky, BigBitLen(n) - 53)

\* float(n) of an integer n
FromInt(n) == Round64(IF n < 0 THEN -1 ELSE 1, BigOfInt(Abs(n)), 0, FALSE)

\* x * y
Mul64(x, y) == Round64(x.s * y.s, BigMul(x.m, y.m), x.e + y.e, FALSE)

\* s * d.q * 2^e rounded, d the quotient and remainder of a division
RoundQuotient(s, d, e) == Round64(s, d.q, e, d.r # <<>>)

\* x / y for y # 0
Div64(x, y) ==
    IF x.m = <<>> THEN Zero64
    ELSE RoundQuotient(x.s * y.s, BigDivMod(BigShl(x.m, 56), y.m), x.e - y.e - 56)

\* sx * a * 2^e + sy * b * 2^e
AddAligned(sx, a, sy, b, e) ==
    Round64(IF sx = sy \/ BigCmp(a, b) > 0 THEN sx ELSE sy,
            IF sx = sy THEN BigAdd(a, b)
            ELSE IF BigCmp(a, b) > 0 THEN BigSub(a, b) ELSE BigSub(b, a),
            e, FALSE)

\* x + y
Add64(x, y) ==
    IF x.m = <<>> THEN y
    ELSE IF y.m = <<>> THEN x
    ELSE AddAligned(x.s, BigShl(x.m, x.e - Min2(x.e, y.e)),
                    y.s, BigShl(y.m, y.e - Min2(x.e, y.e)), Min2(x.e, y.e))

\* x - y
Sub64(x, y) == Add64(x, [y EXCEPT !.s = -y.s])

\* x < 0
Negative64(x) == x.m # <<>> /\ x.s = -1

\* x < y
Less64(x, y) == Negative64(Sub64(x, y))

\* int(x): x truncated toward zero
Int64(x) ==
    IF x.m = <<>> THEN 0
    ELSE x.s * BigToInt(IF x.e >= 0 THEN BigShl(x.m, x.e) ELSE BigShr(x.m, -x.e))

----------------------------------------------------------------------------
(* The player's trade dialogs with credits and prices in binary64, on the   *)
(* turns before the first update of the AI traders                          *)

\* random.random(): n / 2^53 for an n below 2^53
Random53(n) == Round64(1, n, -53, FALSE)

\* the literals 0.1, 0.5, 2.0, 0.9 and 1.1
Tenth64 == Div64(FromInt(1), FromInt(10))
Half64 == Div64(FromInt(1), FromInt(2))
Two64 == FromInt(2)
NineTenths64 == Div64(FromInt(9), FromInt(10))
ElevenTenths64 == Div64(FromInt(11), FromInt(10))

\* random.uniform(a, b) is a + (b - a) * random.random()
uniform(a, b, drawn) == Add64(a, Mul64(Sub64(b, a), drawn))

\* Market._get_base_price, an int
base_price(commodity) == BasePrice(commodity) \div 100

\* max(x, y) and min(x, y) of floats: the first argument unless the second is
\* greater, respectively less
Max64(x, y) == IF Less64(x, y) THEN y ELSE x
Min64(x, y) == IF Less64(y, x) THEN y ELSE x

\* Market.adjust_price (lines 64-78)
adjust_price(market, commodity, quantity_change) ==
    LET current_stock == market.stock_levels[commodity]
        price_impact  == Mul64(Div64(FromInt(-quantity_change),
                                     FromInt(Max2(100, current_stock))), Tenth64)
        current_price == market.commodities[commodity]
        new_price     == Mul64(current_price, Add64(FromInt(1), price_impact))
        min_price     == Mul64(FromInt(base_price(commodity)), Half64)
        max_price     == Mul64(FromInt(base_price(commodity)), Two64)
    IN [market EXCEPT
          !.commodities[commodity] = Max64(min_price, Min64(max_price, new_price)),
          !.stock_levels[commodity] = Max2(0, current_stock + quantity_change)]

\* Galaxy._generate_market for a trading post (lines 621-631): the multiplier
\* and the variance of each commodity are random.uniform(0.9, 1.1), the price
\* is base * multiplier * variance
generate_trading_post_market(multiplier_drawn, variance_drawn, stock) ==
    LET multiplier == [c \in Commodities |->
                          uniform(NineTenths64, ElevenTenths64, multiplier_drawn[c])]
        variance   == [c \in Commodities |->
                          uniform(NineTenths64, ElevenTenths64, variance_drawn[c])]
    IN [commodities   |-> [c \in Commodities |->
                              Mul64(Mul64(FromInt(base_price(c)), multiplier[c]), variance[c])],
        supply_demand |-> multiplier,
        stock_levels  |-> stock]

\* Game.buy_goods (lines 875-915); st is [ship, market]
buy_goods_binary64(st, selection, quantity) ==
    LET choice == selection.val - 1
    IN IF ~selection.ok THEN st
       ELSE IF ~(0 <= choice /\ choice < Len(CommodityType)) THEN st
       ELSE LET commodity      == CommodityType[choice + 1]
                price          == st.market.commodities[commodity]
                max_affordable == Int64(Div64(st.ship.credits, price))
                max_space      == cargo_space_remaining(st.ship)
                max_stock      == st.market.stock_levels[commodity]
                max_buy        == Min2(max_affordable, Min2(max_space, max_stock))
            IN IF max_buy <= 0 THEN st
               ELSE IF ~quantity.ok THEN st
               ELSE IF 0 < quantity.val /\ quantity.val <= max_buy
               THEN LET total_cost == Mul64(FromInt(quantity.val), price)
                    IN [ship |-> [st.ship EXCEPT
                                     !.cargo_hold[commodity] = @ + quantity.val,
                                     !.credits = Sub64(@, total_cost)],
                        market |-> adjust_price(st.market, commodity, -quantity.val)]
               ELSE st

\* Game.sell_goods (lines 917-953)
sell_goods_binary64(st, selection, quantity) ==
    LET available == Available(st.ship)
        choice    == selection.val - 1
    IN IF available = <<>> THEN st
       ELSE IF ~selection.ok THEN st
       ELSE IF ~(0 <= choice /\ choice < Len(available)) THEN st
       ELSE LET commodity    == available[choice + 1]
                max_quantity == st.ship.cargo_hold[commodity]
            IN IF ~quantity.ok THEN st
               ELSE IF 0 < quantity.val /\ quantity.val <= max_quantity
               THEN LET total_value == Mul64(FromInt(quantity.val),
                                             st.market.commodities[commodity])
                    IN [ship |-> [st.ship EXCEPT
                                     !.cargo_hold[commodity] = @ - quantity.val,
                                     !.credits = Add64(@, total_value)],
                        market |-> adjust_price(st.market, commodity, quantity.val)]
               ELSE st

\* the numbers random.random() returned for the multipliers and the variances
\* of two trading posts, as n of n / 2^53, and the stock drawn for them
MultipliersDrawn ==
    << [Food |-> Random53(<<1389, 3314, 2419, 2882, 27>>),
         Minerals |-> Random53(<<2735, 2890, 1316, 1883, 25>>),
         Technology |-> Random53(<<701, 30, 2178, 1480, 27>>),
         Medicine |-> Random53(<<1656, 1118, 3375, 2968, 25>>),
         Luxuries |-> Random53(<<3705, 1023, 3233, 2648, 19>>),
         Fuel |-> Random53(<<2451, 391, 3352, 1191, 14>>)],
       [Food |-> Random53(<<3877, 866, 2583, 975, 17>>),
         Minerals |-> Random53(<<3879, 2130, 4017, 1238, 20>>),
         Technology |-> Random53(<<1844, 1808, 2043, 2773, 12>>),
         Medicine |-> Random53(<<1942, 1655, 679, 2643, 23>>),
         Luxuries |-> Random53(<<2151, 1304, 2856, 3850, 19>>),
         Fuel |-> Random53(<<3766, 1087, 647, 87, 2>>)] >>
VariancesDrawn ==
    << [Food |-> Random53(<<3623, 1235, 2959, 1718, 27>>),
         Minerals |-> Random53(<<3728, 1577, 3846, 2433, 8>>),
         Technology |-> Random53(<<2610, 1517, 3478, 314, 6>>),
         Medicine |-> Random53(<<450, 199, 899, 919, 15>>),
         Luxuries |-> Random53(<<2131, 8, 715, 3922, 5>>),
         Fuel |-> Random53(<<1153, 2747, 1357, 2201, 4>>)],
       [Food |-> Random53(<<3391, 1101, 4047, 2015, 28>>),
         Minerals |-> Random53(<<2919, 2954, 10, 221, 19>>),
         Technology |-> Random53(<<3512, 4005, 4086, 2030, 14>>),
         Medicine |-> Random53(<<1150, 2392, 413, 3286, 20>>),
         Luxuries |-> Random53(<<1668, 3441, 3075, 2516, 26>>),
         Fuel |-> Random53(<<3539, 1003, 271, 577, 1>>)] >>
StockDrawn ==
    << [Food |-> 45, Minerals |-> 60, Technology |-> 30, Medicine |-> 25, Luxuries |-> 20, Fuel |-> 70],
       [Food |-> 33, Minerals |-> 80, Technology |-> 52, Medicine |-> 20, Luxuries |-> 64, Fuel |-> 41] >>

\* the trading posts generated from the numbers drawn
TradingPosts ==
    { [name |-> "Gamma Trading Post 1", station_type |-> "Trading Post",
       position |-> Pos(0, 0, 3, 4),
       market |-> generate_trading_post_market(MultipliersDrawn[k], VariancesDrawn[k],
                                               StockDrawn[k])] : k \in 1..2 }

\* the game starts with the player ship on a trading post, credits 5000.0.
\* No trader is updated before the end of the third turn (line 716): the
\* traders, which the turns before it do not read, are left out.
DialogInit ==
    /\ \E post \in TradingPosts : stations = <<post>>
    /\ ai_traders = <<>>
    /\ player_ship = [create_player_ship(Pos(0, 0, 3, 4)) EXCEPT !.credits = FromInt(5000)]
    /\ game_time = 0
    /\ turn_count = 0
    /\ running = TRUE
    /\ pc = "prompt"
    /\ cur = 0
    /\ phase = "idle"

\* a command is read on a turn that ends without an update of the traders
BeforeFirstUpdate == pc = "prompt" /\ running /\ (turn_count + 1) % 3 # 0

\* the largest quantity buy_goods offers for the commodity (lines 891-894)
MaxBuy64(ship, market, commodity) ==
    Min2(Int64(Div64(ship.credits, market.commodities[commodity])),
         Min2(cargo_space_remaining(ship), market.stock_levels[commodity]))

\* the command trade, "1" in the menu, a commodity and one unit or the
\* largest quantity offered, then "4"
BuyDialog ==
    /\ BeforeFirstUpdate
    /\ \E selection \in 1..Len(CommodityType) :
          \E quantity \in {1, MaxBuy64(player_ship, stations[1].market,
                                       CommodityType[selection])} :
             \E done \in {buy_goods_binary64([ship |-> player_ship,
                                                 market |-> stations[1].market],
                                                Typed(selection), Typed(quantity))} :
                /\ player_ship' = done.ship
                /\ stations' = [stations EXCEPT ![1].market = done.market]
    /\ game_time' = game_time + 1
    /\ turn_count' = turn_count + 1
    /\ UNCHANGED <<ai_traders, running, pc, cur, phase>>

\* the command trade, "2" in the menu, a held commodity and one unit or all
\* of it, then "4"
SellDialog ==
    /\ BeforeFirstUpdate
    /\ \E selection \in 1..Len(CommodityType) :
          \E quantity \in {1, IF selection <= Len(Available(player_ship))
                              THEN player_ship.cargo_hold[Available(player_ship)[selection]]
                              ELSE 1} :
             \E done \in {sell_goods_binary64([ship |-> player_ship,
                                                  market |-> stations[1].market],
                                                 Typed(selection), Typed(quantity))} :
                /\ player_ship' = done.ship
                /\ stations' = [stations EXCEPT ![1].market = done.market]
    /\ game_time' = game_time + 1
    /\ turn_count' = turn_count + 1
    /\ UNCHANGED <<ai_traders, running, pc, cur, phase>>

DialogNext == BuyDialog \/ SellDialog

DialogSpec == DialogInit /\ [][DialogNext]_vars

----------------------------------------------------------------------------
(* C29 *)

\* C29 as stated: the credits of every AI trader and of the player are >= 0
\* in every reachable state; a purchase costs at most the credits held
C29_CreditsNeverNegative ==
    /\ \A i \in 1..Len(ai_traders) : ~Less64(ai_traders[i].ship.credits, Zero64)
    /\ ~Less64(player_ship.credits, Zero64)

----------------------------------------------------------------------------
(* C30 *)

\* the commodities outside the preferred set of a Specialist; none for the
\* other personalities
Foreign(ship) ==
    IF ship.personality = "Specialist" THEN Commodities \ ship.preferred_commodities ELSE {}

\* C30: for a Specialist trader the held quantity of a commodity outside its
\* preferred set never increases in a step, hence over no sequence of ticks:
\* it buys only preferred commodities, and its other cargo stays equal or
\* shrinks through sales
C30_ForeignCargoNeverGrows ==
    [][ \A i \in 1..Len(ai_traders) : \A c \in Foreign(ai_traders[i].ship) :
           /\ ai_traders'[i].ship.personality = "Specialist"
           /\ ai_traders'[i].ship.preferred_commodities = ai_traders[i].ship.preferred_commodities
           /\ ai_traders'[i].ship.cargo_hold[c] <= ai_traders[i].ship.cargo_hold[c] ]_vars

\* a Specialist passes the trade gate at a station; in the pass it sells some
\* of a commodity outside its preferred set and buys a preferred one, while
\* a commodity outside the set is in stock at a price under every threshold
\* and within its funds and its cargo space
C30_Witness ==
    /\ pc = "ai" /\ phase = "trade"
    /\ StationAt(stations, ai_traders[cur].ship.position) # 0
    /\ TradeGate(ai_traders[cur].ship, game_time)
    /\ LET me     == ai_traders[cur]
           market == stations[StationAt(stations, me.ship.position)].market
           after  == trade_at_station(me, market, game_time)
       IN /\ me.ship.personality = "Specialist"
          /\ \E c \in Foreign(me.ship) :
                after.trader.ship.cargo_hold[c] < me.ship.cargo_hold[c]
          /\ \E c \in me.ship.preferred_commodities :
                after.trader.ship.cargo_hold[c] > me.ship.cargo_hold[c]
          /\ \E c \in Foreign(me.ship) :
                /\ 100 * after.market.commodities[c] <= 115 * BasePrice(c)
                /\ after.market.stock_levels[c] > 0
                /\ MaxAffordable(after.trader.ship, after.market.commodities[c]) > 0
                /\ cargo_space_remaining(after.trader.ship) > 0

----------------------------------------------------------------------------
(* The trade memory: one entry per quadrant, the latest observation         *)

\* the key _update_trade_memory gives a station: its quadrant, not its sector
QuadrantKey(station) == <<station.position.quadrant_x, station.position.quadrant_y>>

\* the station whose prices the running update of trader i records in this
\* step, 0 when the step is no memory step of trader i or i is at no station
Recording(i) == IF Updating("memory") /\ cur = i THEN StationAt(stations, ai_traders[i].ship.position) ELSE 0

\* C31: in every step, for every trader: a key of the memory stays in the
\* memory; the memory holds no two entries of one key; when the step is the
\* memory step of the trader's update and the trader is at a station, the
\* entry under the station's quadrant (quadrant x, quadrant y) afterwards
\* holds the station's current price of every commodity and the current
\* time; every other entry, and the memory in every other step, stays as it
\* was, so each entry is the latest observation of its quadrant
C31_MemoryPerQuadrant ==
    [][ \A i \in 1..Len(ai_traders) :
           LET before == ai_traders[i].trade_memory
               after  == ai_traders'[i].trade_memory
               s      == Recording(i)
           IN /\ \A k \in 1..Len(before) : MemoryIndex(after, before[k].key) # 0
              /\ \A j, k \in 1..Len(after) : after[j].key = after[k].key => j = k
              /\ s = 0 => after = before
              /\ s # 0 =>
                    /\ \E k \in 1..Len(after) :
                          /\ after[k].key = QuadrantKey(stations[s])
                          /\ \A c \in Commodities :
                                after[k].prices[c] = stations[s].market.commodities[c]
                          /\ DOMAIN after[k].prices = Commodities
                          /\ after[k].time = game_time
                    /\ \A k \in 1..Len(before) :
                          before[k].key # QuadrantKey(stations[s])
                             => after[MemoryIndex(after, before[k].key)] = before[k] ]_vars

\* the memory step of an update has just re-recorded a quadrant the trader
\* knew (its entry is not the last, so it was not appended by this step), in
\* a memory of at least two quadrants; another quadrant's entry is older
C31_Witness ==
    /\ pc = "ai" /\ phase = "analyze"
    /\ LET memory == ai_traders[cur].trade_memory
           s      == StationAt(stations, ai_traders[cur].ship.position)
       IN /\ s # 0
          /\ Len(memory) >= 2
          /\ \E k \in 1..Len(memory) :
                /\ memory[k].key = QuadrantKey(stations[s])
                /\ memory[k].time = game_time
                /\ memory[k].prices = stations[s].market.commodities
                /\ k < Len(memory)
                /\ \E j \in 1..Len(memory) : j # k /\ memory[j].time < game_time

----------------------------------------------------------------------------
(* The order of the prices a trend refresh reads                            *)

\* the keys of a memory in the order of trade_memory.values()
KeysOf(memory) == [k \in 1..Len(memory) |-> memory[k].key]

\* the list prices of _analyze_market_trends for a commodity
PricesOf(memory, commodity) == [k \in 1..Len(memory) |-> memory[k].prices[commodity]]

\* the running update of trader i refreshes its trends in this step
Refreshing(i) == Updating("analyze") /\ cur = i /\ game_time - ai_traders[i].last_analysis_time > 50

\* C32: in every step, for every trader: the keys of the memory keep their
\* order; a step changes the key sequence only by putting a key that was not
\* in the memory at its end, so a re-recorded quadrant stays at its place and
\* the sequence is the order of first insertion; a trend refresh stores for
\* every commodity the trend of the remembered prices listed in that order,
\* whose last entries are those of the quadrants first visited latest
C32_InsertionOrder ==
    [][ \A i \in 1..Len(ai_traders) :
           LET before == ai_traders[i].trade_memory
               after  == ai_traders'[i].trade_memory
               s      == Recording(i)
           IN /\ \/ KeysOf(after) = KeysOf(before)
                 \/ /\ s # 0
                    /\ MemoryIndex(before, QuadrantKey(stations[s])) = 0
                    /\ KeysOf(after) = Append(KeysOf(before), QuadrantKey(stations[s]))
              /\ (s # 0 /\ MemoryIndex(before, QuadrantKey(stations[s])) # 0)
                    => after[MemoryIndex(before, QuadrantKey(stations[s]))].time = game_time
              /\ (Refreshing(i) /\ Len(before) >= 2) =>
                    \A c \in Commodities :
                       /\ c \in DOMAIN ai_traders'[i].market_analysis
                       /\ ai_traders'[i].market_analysis[c] = Trend(PricesOf(before, c))
                       /\ Len(before) = 2 =>
                             FractionIs(ai_traders'[i].market_analysis[c],
                                        before[2].prices[c] - before[1].prices[c],
                                        before[1].prices[c]) ]_vars

\* a refresh has just run on a memory of two quadrants of which the first
\* inserted was re-recorded after the second was inserted, and for some
\* commodity the stored trend is the one of the prices in insertion order
\* and differs from the one of the prices in the order of their timestamps
C32_Witness ==
    /\ pc = "ai" /\ phase = "trade"
    /\ ai_traders[cur].last_analysis_time = game_time
    /\ LET memory == ai_traders[cur].trade_memory
       IN /\ Len(memory) = 2
          /\ memory[1].time > memory[2].time
          /\ \E c \in Commodities :
                /\ c \in DOMAIN ai_traders[cur].market_analysis
                /\ ai_traders[cur].market_analysis[c]
                      = Trend(<<memory[1].prices[c], memory[2].prices[c]>>)
                /\ ai_traders[cur].market_analysis[c]
                      # Trend(<<memory[2].prices[c], memory[1].prices[c]>>)

----------------------------------------------------------------------------
(* The spacing of the trend refreshes: a game long enough for two of them   *)

\* the turns of the long game
RefreshTurns == 108

\* the player types 'status' at the prompt of every turn of the long game
StatusCommand ==
    /\ pc = "prompt" /\ running /\ turn_count < RefreshTurns
    /\ Handler(Cmd_status) = "status"
    /\ UNCHANGED <<stations, ai_traders, player_ship, running>>
    /\ EndTurn

RefreshNext ==
    \/ StatusCommand
    \/ UpdateTradeMemory
    \/ AnalyzeMarketTrends
    \/ TradeAtStation
    \/ PlanMovement
    \/ MoveShip

RefreshSpec == Init /\ [][RefreshNext]_vars

\* C33: in every step, for every trader: last_analysis_time changes only in
\* the refresh step of the trader's update and becomes the update's time, so
\* it is the time of the trader's latest refresh (0.0 before the first); a
\* refresh comes at least 5.0 after the one before and not before time 5.0;
\* the stored trends change in no step that is not a refresh of the trader,
\* whatever the memory does.  The code's comparison is never taken at a
\* difference of exactly 5.0, where the rounding of its sum of 0.1s would
\* decide it.
C33_RefreshSpacing ==
    [][ \A i \in 1..Len(ai_traders) :
           LET me        == ai_traders[i]
               after     == ai_traders'[i]
               refreshed == after.last_analysis_time # me.last_analysis_time
           IN /\ refreshed =>
                    /\ Updating("analyze") /\ cur = i
                    /\ after.last_analysis_time = game_time
                    /\ game_time - me.last_analysis_time >= 50
                    /\ game_time >= 50
              /\ ~refreshed => after.market_analysis = me.market_analysis
              /\ (Updating("analyze") /\ cur = i) =>
                    /\ game_time - me.last_analysis_time # 50
                    /\ refreshed <=> Refreshing(i) ]_vars

\* a trader has refreshed its trends twice; since the second refresh its
\* memory has been updated, and the stored trend of some commodity is no
\* longer the one of the remembered prices
C33_Witness ==
    \E i \in 1..Len(ai_traders) :
        /\ ai_traders[i].last_analysis_time >= 2 * 50
        /\ \E k \in 1..Len(ai_traders[i].trade_memory) :
              ai_traders[i].trade_memory[k].time > ai_traders[i].last_analysis_time
        /\ \E c \in DOMAIN ai_traders[i].market_analysis :
              ai_traders[i].market_analysis[c]
                 # Trend(PricesOf(ai_traders[i].trade_memory, c))

====
